---- MODULE Spec2Model ----
(***************************************************************************)
(* Verification model of the VEDA AI backend:                              *)
(*   - ModelRouter.generate          (app/services/model_router.py)        *)
(*   - the provider adapters         (app/services/*_service.py, gemini.py)*)
(*   - QuotaManager                  (app/services/web_search.py)          *)
(*   - WebSearchService              (app/services/web_search.py)          *)
(***************************************************************************)
EXTENDS Integers, Sequences, FiniteSets, TLC

(***************************************************************************)
(* Part 1.  Model router and provider adapters                             *)
(***************************************************************************)

\* self.providers keys of ModelRouter.__init__
Providers == {"gemini", "groq", "openrouter", "xai", "openai", "ollama"}

\* self.priority of ModelRouter.__init__ ("Priority order for fallback").
\* The attribute is assigned in the constructor and read nowhere.
priority == <<"groq", "xai", "openrouter", "ollama", "openai", "gemini">>

\* What one provider does when its adapter is invoked during a request:
\*   no_key      credentials missing (the adapter's availability flag is false)
\*   ok          the backend answers with a completion
\*   http_error  the backend answers with a non-200 status
\*   timeout     the call times out / the transport raises
Outcome == {"no_key", "ok", "http_error", "timeout"}

\* Kinds of text a result can carry.
\*   answer      a genuine completion
\*   error_text  raw provider error text ("Error: ... API returned 500")
\*   empty       the empty string
\*   apology     the router's fixed user-safe apology string
Apology == "apology"

VARIABLES
    avail,        \* providers whose credentials are configured (fixed at start-up)
    pc,           \* position of the generate() coroutine
    auto,         \* TRUE iff generate() was called with provider = "auto"
    provider,     \* local `provider`: the argument, then the routing decision
    is_complex,   \* local `is_complex`: "undef" while unbound, else "true"/"false"
    is_vision,    \* local `is_vision`: "undef" while unbound, else "true"/"false"
    health,       \* how each provider responds while this request runs
    search_llm,   \* adapter invocations made by the search context injection
    calls,        \* adapter invocations made by routing execution, in order
    result,       \* the dict generate() returned
    raised        \* TRUE iff an exception left generate()

routerVars == <<avail, pc, auto, provider, is_complex, is_vision,
                health, search_llm, calls, result, raised>>

\* State of the quota ledger and of the search gateway (Parts 2 and 3).
VARIABLES
    now_month,    \* the wall clock's month, datetime.now().strftime("%Y-%m")
    file,         \* QUOTA_FILE: [state, data]
    usage,        \* QuotaManager.usage, the in-memory ledger
    instance,     \* how many times the process (and its QuotaManager) restarted
    expected,     \* per service: count loaded at construction + record_usage calls
    q_op,         \* the QuotaManager method called last since the clock last changed
    disk,         \* how a write of QUOTA_FILE ends at present
    brave_key,    \* WebSearchService.brave_key is set
    tavily_key,   \* WebSearchService.tavily_key is set
    req           \* the search coroutines

quotaVars == <<now_month, file, usage, instance, expected, q_op, disk>>
searchVars == <<brave_key, tavily_key, req>>
\* The orchestrator: one process_message coroutine (Part 4).
VARIABLES
    orch          \* the locals of process_message and what it has done

orchVars == <<orch>>

\* The quality-gate agents called on their own, the background persistence
\* task and the rate limiter (Parts 5 to 8).
VARIABLES
    fc,           \* one call of FactCheckerAgent.process: its inputs and result
    crit,         \* calls of CriticAgent.process: inputs and results
    bg,           \* the task running _save_conversation_background
    requests,     \* InMemoryRateLimiter._requests: key -> list of timestamps
    clock,        \* datetime.now(), in seconds
    rl            \* the limiter's last call and the requests it has allowed

factVars == <<fc>>
criticVars == <<crit>>
persistVars == <<bg>>
limiterVars == <<requests, clock, rl>>
sideVars == <<factVars, criticVars, persistVars, limiterVars>>
vars == <<routerVars, quotaVars, searchVars, orchVars, sideVars>>

NoResult == [response |-> "none", provider |-> "none", fallback |-> FALSE, error |-> FALSE]

\* ---- provider adapters: what the call returns or raises ------------------

Returns(text) == [raises |-> FALSE, text |-> text]
Raises == [raises |-> TRUE, text |-> "none"]

\* GroqService.generate_response: raises when unconfigured, re-raises SDK errors.
groq_generate_response(o) ==
    IF o = "ok" THEN Returns("answer") ELSE Raises

\* OpenRouterService.generate_response: every failure comes back as a string.
openrouter_generate_response(o) ==
    IF o = "ok" THEN Returns("answer") ELSE Returns("error_text")

\* XAIService.generate_response: every failure comes back as a string.
xai_generate_response(o) ==
    IF o = "ok" THEN Returns("answer") ELSE Returns("error_text")

\* A Gemini adapter that raises on failure, like Groq's.
gemini_generate_response_raising(o) ==
    IF o = "ok" THEN Returns("answer") ELSE Raises

\* GeminiService.generate_response: missing key, non-200 status and any
\* exception all come back as an "Error..." string; nothing is raised.
gemini_generate_response(o) ==
    IF o = "ok" THEN Returns("answer") ELSE Returns("error_text")

\* OllamaCloudService.invoke: {"error": ...} when unconfigured (the router then
\* reads result.get("response", "") = ""), re-raises on any failure.
ollama_invoke(o) ==
    CASE o = "ok"     -> Returns("answer")
      [] o = "no_key" -> Returns("empty")
      [] OTHER        -> Raises

\* Dispatch to the adapter of provider p.
Adapter(p, o) ==
    CASE p = "groq"       -> groq_generate_response(o)
      [] p = "openrouter" -> openrouter_generate_response(o)
      [] p = "xai"        -> xai_generate_response(o)
      [] p = "gemini"     -> gemini_generate_response(o)
      [] OTHER            -> ollama_invoke(o)

\* ---- auto routing: the provider chosen for a request ---------------------

\* Lines 113-150: the capability-specific primary order.
\* v = is_vision, c = is_complex, f = fast, a = configured providers.
SelectProvider(v, c, f, a) ==
    IF v THEN
        IF "gemini" \in a THEN "gemini"
        ELSE IF "ollama" \in a THEN "ollama"
        ELSE "gemini"
    ELSE IF c THEN
        IF "openrouter" \in a THEN "openrouter"
        ELSE IF "xai" \in a THEN "xai"
        ELSE IF "groq" \in a THEN "groq"
        ELSE IF "ollama" \in a THEN "ollama"
        ELSE IF "openai" \in a THEN "openai"
        ELSE "gemini"
    ELSE IF f THEN
        IF "groq" \in a THEN "groq"
        ELSE IF "xai" \in a THEN "xai"
        ELSE "gemini"
    ELSE
        IF "groq" \in a THEN "groq"
        ELSE IF "xai" \in a THEN "xai"
        ELSE "gemini"

\* ---- routing execution: primary, Ollama backup, Gemini last resort -------

\* What one stage of routing execution does:
\*   kind    "return"    generate() returns `result`
\*           "continue"  control reaches the next stage
\*           "propagate" an exception leaves generate()
\*   called  the adapters the stage invoked
StageReturn(called, text, p, fb) ==
    [kind |-> "return", called |-> called,
     result |-> [response |-> text, provider |-> p, fallback |-> fb, error |-> FALSE]]
StageContinue(called) == [kind |-> "continue", called |-> called, result |-> NoResult]
StagePropagate(called) == [kind |-> "propagate", called |-> called, result |-> NoResult]

\* A try block without its handler: the exception leaves generate().
try_except_missing(att, called, p, fb) ==
    IF att.raises THEN StagePropagate(called)
    ELSE StageReturn(called, att.text, p, fb)

\* try: ... return {...}  except Exception: print(...)   (primary and backup)
try_except(att, called, p, fb) ==
    IF att.raises THEN StageContinue(called)
    ELSE StageReturn(called, att.text, p, fb)

\* The if/elif chain inside the primary try block: the branch that runs.
PrimaryBranch(p, a) ==
    IF p = "groq" /\ "groq" \in a THEN "groq"
    ELSE IF p = "openrouter" /\ "openrouter" \in a THEN "openrouter"
    ELSE IF p = "xai" /\ "xai" \in a THEN "xai"
    ELSE IF p = "gemini" THEN "gemini"
    ELSE IF p = "ollama" /\ "ollama" \in a THEN "ollama"
    ELSE "none"

\* "1. Try Primary Provider".  Every branch but gemini's reads is_complex
\* before it calls its adapter; the name is unbound unless provider was "auto",
\* and the UnboundLocalError is raised inside the try block.
TryPrimary(p, a, c, h) ==
    LET b == PrimaryBranch(p, a) IN
    IF b = "none" THEN StageContinue(<<>>)
    ELSE IF b # "gemini" /\ c = "undef" THEN try_except(Raises, <<>>, b, FALSE)
    ELSE try_except(Adapter(b, h[b]), <<b>>, b, FALSE)

\* "2. Backup: Ollama Cloud"; o is what Ollama does on this call.
TryBackup(a, c, o) ==
    IF "ollama" \notin a THEN StageContinue(<<>>)
    ELSE IF c = "undef" THEN try_except(Raises, <<>>, "ollama", TRUE)
    ELSE try_except(ollama_invoke(o), <<"ollama">>, "ollama", TRUE)

\* "3. Last Resort: Gemini": the handler returns the apology with "error" set
\* and without a "provider" key.
TryLastResort(o) ==
    LET att == gemini_generate_response(o) IN
    IF att.raises
    THEN [kind |-> "return", called |-> <<"gemini">>,
          result |-> [response |-> Apology, provider |-> "none",
                      fallback |-> TRUE, error |-> TRUE]]
    ELSE StageReturn(<<"gemini">>, att.text, "gemini", TRUE)

\* The effect of a finished stage on the coroutine.
Advance(st, next) ==
    /\ calls' = calls \o st.called
    /\ result' = st.result
    /\ raised' = (st.kind = "propagate")
    /\ pc' = IF st.kind = "continue" THEN next ELSE "done"

\* A local name bound to the boolean b.
Bound(b) == IF b THEN "true" ELSE "false"

\* ---- generate(): the coroutine ------------------------------------------

\* Lines 60-150.  f: argument `fast` (it picks the model name, and the
\* provider only through SelectProvider).  kwComplex, kwVision, kwSearch: the keyword scans of the
\* message; web: the search gateway answered from Brave/Tavily (success), else
\* it fell to the knowledge fallback, which calls Groq; pm: a project keyword
\* matched and Jira is available.  Search and Jira context force is_complex.
Generate_Auto ==
    /\ pc = "idle"
    /\ \E f \in BOOLEAN, kwComplex \in BOOLEAN, kwVision \in BOOLEAN,
          kwSearch \in BOOLEAN, web \in BOOLEAN, pm \in BOOLEAN,
          h \in [Providers -> Outcome] :
        LET searched == kwSearch /\ ~web
            success  == kwSearch /\ (web \/ ~groq_generate_response(h["groq"]).raises)
            c        == kwComplex \/ success \/ pm
        IN  /\ \A p \in Providers : (h[p] = "no_key") <=> (p \notin avail)
            /\ kwSearch \/ web
            /\ health' = h
            /\ auto' = TRUE
            /\ is_complex' = Bound(c)
            /\ is_vision' = Bound(kwVision)
            /\ search_llm' = IF searched THEN <<"groq">> ELSE <<>>
            /\ provider' = SelectProvider(kwVision, c, f, avail)
    /\ pc' = "primary"
    /\ UNCHANGED <<avail, calls, result, raised>>
    /\ UNCHANGED <<quotaVars, searchVars, orchVars, sideVars>>

\* generate(provider = p): the routing block is skipped, so is_complex and
\* is_vision stay unbound.
Generate_Forced ==
    /\ pc = "idle"
    /\ \E p \in Providers, h \in [Providers -> Outcome] :
        /\ \A q \in Providers : (h[q] = "no_key") <=> (q \notin avail)
        /\ health' = h
        /\ auto' = FALSE
        /\ provider' = p
    /\ is_complex' = "undef"
    /\ is_vision' = "undef"
    /\ pc' = "primary"
    /\ UNCHANGED <<avail, search_llm, calls, result, raised>>
    /\ UNCHANGED <<quotaVars, searchVars, orchVars, sideVars>>

Generate_Primary ==
    /\ pc = "primary"
    /\ Advance(TryPrimary(provider, avail, is_complex, health), "backup")
    /\ UNCHANGED <<avail, auto, provider, is_complex, is_vision, health, search_llm>>
    /\ UNCHANGED <<quotaVars, searchVars, orchVars, sideVars>>

\* A second call to Ollama within one request may behave differently from
\* the first one; health then records how Ollama answered last.
Generate_Backup ==
    /\ pc = "backup"
    /\ \E o \in Outcome :
        /\ IF "ollama" \in avail /\ calls # <<>> /\ calls[1] = "ollama"
           THEN o # "no_key"
           ELSE o = health["ollama"]
        /\ health' = [health EXCEPT !["ollama"] = o]
        /\ Advance(TryBackup(avail, is_complex, o), "last_resort")
    /\ UNCHANGED <<avail, auto, provider, is_complex, is_vision, search_llm>>
    /\ UNCHANGED <<quotaVars, searchVars, orchVars, sideVars>>

Generate_LastResort ==
    /\ pc = "last_resort"
    /\ Advance(TryLastResort(health["gemini"]), "done")
    /\ UNCHANGED <<avail, auto, provider, is_complex, is_vision, health, search_llm>>
    /\ UNCHANGED <<quotaVars, searchVars, orchVars, sideVars>>

(***************************************************************************)
(* Part 2.  Quota ledger (QuotaManager)                                    *)
(***************************************************************************)

\* Bounds of the model.  The monthly limits of the source are 2000 (brave)
\* and 100 (tavily); the model counts against limits of the same shape,
\* scaled down so that the ledger reaches and passes them.
BraveQuota == 2
TavilyQuota == 1
MaxMonth == 1         \* months the clock can advance
MaxRestart == 1       \* process restarts

\* MONTHLY_QUOTAS
MONTHLY_QUOTAS == [brave |-> BraveQuota, tavily |-> TavilyQuota]

\* The counters _create_new_month creates.
Services == {"brave", "tavily", "groq_fallback"}

Max(a, b) == IF a >= b THEN a ELSE b

\* _create_new_month's dict for month m.
NewMonth(m) == [month |-> m, brave |-> 0, tavily |-> 0, groq_fallback |-> 0]

\* QUOTA_FILE: missing, holding a ledger, or holding text json.loads rejects.
NoFile == [state |-> "missing", data |-> NewMonth(0)]
CorruptFile == [state |-> "corrupt", data |-> NewMonth(0)]
FileOf(data) == [state |-> "ok", data |-> data]

\* Path.write_text opens the file for writing (truncating it) and writes:
\*   ok     the text is written
\*   error  the open fails; the file keeps its content
\*   torn   the write fails after the truncation; the content no longer parses
WriteOutcome == {"ok", "error", "torn"}

write_text(f, data, w) ==
    CASE w = "ok"    -> FileOf(data)
      [] w = "error" -> f
      [] OTHER       -> CorruptFile

\* _save_usage: the write's exception is caught and printed.
_save_usage(f, data, w) == write_text(f, data, w)

\* _create_new_month: a fresh ledger for the clock's month, saved.
_create_new_month(f, now, w) ==
    [usage |-> NewMonth(now), file |-> _save_usage(f, NewMonth(now), w)]

\* The stored ledger exists, parses and carries the clock's month.
Loaded(f, now) == f.state = "ok" /\ f.data.month = now

\* _load_usage: the stored ledger when it exists, parses and carries the
\* clock's month; a fresh one otherwise.  The only place the month is compared.
_load_usage(f, now, w) ==
    IF Loaded(f, now)
    THEN [usage |-> f.data, file |-> f]
    ELSE _create_new_month(f, now, w)

\* can_use with a wrong comparison.
can_use_le(u, s) ==
    IF s \in DOMAIN MONTHLY_QUOTAS THEN u[s] <= MONTHLY_QUOTAS[s] ELSE TRUE

\* can_use: current < limit; a service without a limit has limit infinity.
can_use(u, s) ==
    IF s \in DOMAIN MONTHLY_QUOTAS THEN u[s] < MONTHLY_QUOTAS[s] ELSE TRUE

\* record_usage: increment in memory, then _save_usage().
record_usage(u, f, s, w) ==
    LET u2 == [u EXCEPT ![s] = @ + 1]
    IN  [usage |-> u2, file |-> _save_usage(f, u2, w)]

\* get_remaining, for the services that have a limit (its only callers).
get_remaining(u, s) == Max(0, MONTHLY_QUOTAS[s] - u[s])

Counts(u) == [s \in Services |-> u[s]]

NoOp == [name |-> "none", service |-> "none", ret |-> 0]

\* QuotaManager(): the constructor loads the ledger.
QuotaInit(f0) ==
    /\ now_month = 0
    /\ instance = 0
    /\ disk \in WriteOutcome
    /\ LET l == _load_usage(f0, 0, disk)
       IN  /\ usage = l.usage
           /\ file = l.file
           /\ expected = Counts(l.usage)
    /\ q_op = NoOp

InitialFiles ==
    {NoFile, CorruptFile}
    \cup {FileOf([month |-> 0, brave |-> b, tavily |-> t, groq_fallback |-> 0]) :
            b \in {0, BraveQuota}, t \in {0, TavilyQuota}}

\* Ledgers the gateway starts from: each quota with one unit left, or spent.
SearchFiles ==
    {FileOf([month |-> 0, brave |-> b, tavily |-> t, groq_fallback |-> 0]) :
        b \in {BraveQuota - 1, BraveQuota}, t \in {TavilyQuota - 1, TavilyQuota}}

\* The calendar month changes while the process keeps running.
Tick ==
    /\ now_month < MaxMonth
    /\ now_month' = now_month + 1
    /\ q_op' = NoOp
    /\ UNCHANGED <<file, usage, instance, expected, disk>>
    /\ UNCHANGED <<routerVars, searchVars, orchVars, sideVars>>

\* The disk that holds QUOTA_FILE fails or recovers.
DiskChange ==
    /\ \E d \in WriteOutcome \ {disk} : disk' = d
    /\ UNCHANGED <<now_month, file, usage, instance, expected, q_op>>
    /\ UNCHANGED <<routerVars, searchVars, orchVars, sideVars>>

\* The process restarts: a new QuotaManager loads the ledger.
Restart ==
    /\ instance < MaxRestart
    /\ instance' = instance + 1
    /\ LET l == _load_usage(file, now_month, disk)
       IN  /\ usage' = l.usage
           /\ file' = l.file
           /\ expected' = Counts(l.usage)
    /\ q_op' = NoOp
    /\ UNCHANGED <<now_month, disk>>
    /\ UNCHANGED <<routerVars, searchVars, orchVars, sideVars>>

\* quota.can_use(s), called directly
CanUse ==
    /\ \E s \in DOMAIN MONTHLY_QUOTAS :
        q_op' = [name |-> "can_use", service |-> s,
                 ret |-> IF can_use(usage, s) THEN 1 ELSE 0]
    /\ UNCHANGED <<now_month, file, usage, instance, expected, disk>>
    /\ UNCHANGED <<routerVars, searchVars, orchVars, sideVars>>

\* quota.record_usage(s), called directly for a service that has a limit
\* (nothing in record_usage stops the count at the limit; the model stops
\* one past it)
RecordUsage ==
    /\ \E s \in DOMAIN MONTHLY_QUOTAS :
        /\ usage[s] <= MONTHLY_QUOTAS[s]
        /\ LET r == record_usage(usage, file, s, disk)
           IN  /\ usage' = r.usage
               /\ file' = r.file
        /\ expected' = [expected EXCEPT ![s] = @ + 1]
        /\ q_op' = [name |-> "record_usage", service |-> s, ret |-> 0]
    /\ UNCHANGED <<now_month, instance, disk>>
    /\ UNCHANGED <<routerVars, searchVars, orchVars, sideVars>>

\* quota.get_remaining(s), called directly (get_status)
GetRemaining ==
    /\ \E s \in DOMAIN MONTHLY_QUOTAS :
        q_op' = [name |-> "get_remaining", service |-> s,
                 ret |-> get_remaining(usage, s)]
    /\ UNCHANGED <<now_month, file, usage, instance, expected, disk>>
    /\ UNCHANGED <<routerVars, searchVars, orchVars, sideVars>>

(***************************************************************************)
(* Part 3.  Search gateway (WebSearchService)                              *)
(***************************************************************************)

NReq == 2             \* search requests (coroutines) in one run of the model
Count == 2            \* the `count` argument of the searches

\* What a backend that answers returns: nothing, fewer results than asked
\* for, or as many as asked for.
ResultCounts == {0, 1, Count}

\* The result counts an HTTP call that ended as o can carry.
ResultsOf(o) == IF o = "ok" THEN ResultCounts ELSE {0}

Req == 1..NReq

Min(a, b) == IF a <= b THEN a ELSE b

\* How an HTTP search call ends:
\*   ok            status 200 and a body that parses
\*   bad_body      status 200, response.json() raises
\*   rate_limited  status 429
\*   error_status  any other status
\*   timeout       httpx.TimeoutException
\*   exception     any other exception
HttpOutcome == {"ok", "bad_body", "rate_limited", "error_status", "timeout", "exception"}

NoResponse == [source |-> "none", count |-> 0, success |-> FALSE,
               is_fallback |-> "absent", results |-> 0, ai |-> 0]

\* A coroutine of the gateway that has not been called.
\*   results, source    the locals of smart_search
\*   tiers              the backends this call invoked, in order
\*   ok                 the tiers whose HTTP call ended "ok"
\*   n_brave, n_tavily  the results search_brave / search_tavily returned
\*   charged            record_usage calls this call made, per service
IdleReq == [kind |-> "none", pc |-> "idle", results |-> 0, source |-> "None",
            tiers |-> <<>>, ok |-> {}, n_brave |-> 0, n_tavily |-> 0,
            charged |-> [s \in Services |-> 0], response |-> NoResponse]

\* What a step of a coroutine leaves behind: its locals, the ledger in memory
\* and on disk, and the services it called record_usage for, in order.
Step(q, u, f, rec) == [req |-> q, usage |-> u, file |-> f, recorded |-> rec]

\* search_brave from the HTTP response on: record_usage only on status 200,
\* after the body parsed; every other outcome returns [] uncharged.
search_brave_http(u, f, o, n, w) ==
    IF o = "ok"
    THEN LET r == record_usage(u, f, "brave", w)
         IN  [usage |-> r.usage, file |-> r.file, recorded |-> <<"brave">>,
              results |-> Min(n, Count)]
    ELSE [usage |-> u, file |-> f, recorded |-> <<>>, results |-> 0]

\* search_tavily from the HTTP response on (n counts the answer entry too).
search_tavily_http(u, f, o, n, w) ==
    IF o = "ok"
    THEN LET r == record_usage(u, f, "tavily", w)
         IN  [usage |-> r.usage, file |-> r.file, recorded |-> <<"tavily">>,
              results |-> Min(n, Count)]
    ELSE [usage |-> u, file |-> f, recorded |-> <<>>, results |-> 0]

\* groq_knowledge_fallback up to its await: the fallback counter is recorded
\* before the model is called.
groq_knowledge_fallback_call(q, u, f, rec, w) ==
    LET r == record_usage(u, f, "groq_fallback", w)
    IN  Step([q EXCEPT !.pc = "groq", !.tiers = Append(@, "groq")],
             r.usage, r.file, Append(rec, "groq_fallback"))

\* groq_knowledge_fallback after its await: one flagged result, or the error
\* dict (no results, source None, no is_fallback key) when the model call raised.
groq_knowledge_fallback_response(att) ==
    IF att.raises
    THEN [source |-> "None", count |-> 0, success |-> FALSE,
          is_fallback |-> "absent", results |-> 0, ai |-> 0]
    ELSE [source |-> "groq_knowledge", count |-> 1, success |-> TRUE,
          is_fallback |-> "true", results |-> 1, ai |-> 1]

\* smart_search lines 316-328: fallback when there are no results, else return.
smart_search_finish(q, u, f, rec, w) ==
    IF q.results = 0
    THEN groq_knowledge_fallback_call(q, u, f, rec, w)
    ELSE Step([q EXCEPT !.pc = "done",
                        !.response = [source |-> q.source, count |-> q.results,
                                      success |-> q.results > 0, is_fallback |-> "false",
                                      results |-> q.results, ai |-> 0]], u, f, rec)

\* The Tavily gate that ignores what Brave returned.
smart_search_tavily_always(q, u, f, rec, w) ==
    IF tavily_key /\ can_use(u, "tavily")
    THEN Step([q EXCEPT !.pc = "tavily", !.tiers = Append(@, "tavily")], u, f, rec)
    ELSE smart_search_finish(q, u, f, rec, w)

\* smart_search lines 310-314 up to search_tavily's await.
smart_search_tavily(q, u, f, rec, w) ==
    IF q.results = 0 /\ tavily_key /\ can_use(u, "tavily")
    THEN Step([q EXCEPT !.pc = "tavily", !.tiers = Append(@, "tavily")], u, f, rec)
    ELSE smart_search_finish(q, u, f, rec, w)

\* smart_search lines 300-309 up to search_brave's await.
smart_search_brave(q, u, f, w) ==
    IF brave_key /\ can_use(u, "brave")
    THEN Step([q EXCEPT !.pc = "brave", !.tiers = Append(@, "brave")], u, f, <<>>)
    ELSE smart_search_tavily(q, u, f, <<>>, w)

\* search_news that tries Tavily when the Brave news search cannot be used.
search_news_call_tavily(q, u, f, w) ==
    IF ~brave_key \/ ~can_use(u, "brave")
    THEN IF tavily_key /\ can_use(u, "tavily")
         THEN Step([q EXCEPT !.pc = "tavily", !.tiers = Append(@, "tavily")], u, f, <<>>)
         ELSE groq_knowledge_fallback_call(q, u, f, <<>>, w)
    ELSE Step([q EXCEPT !.pc = "news", !.tiers = Append(@, "news")], u, f, <<>>)

\* search_news lines 332-345 up to the await.
search_news_call(q, u, f, w) ==
    IF ~brave_key \/ ~can_use(u, "brave")
    THEN groq_knowledge_fallback_call(q, u, f, <<>>, w)
    ELSE Step([q EXCEPT !.pc = "news", !.tiers = Append(@, "news")], u, f, <<>>)

\* search_news from the HTTP response on: status 200 records brave usage and
\* returns (count = len(results), uncut); anything else falls to the
\* knowledge fallback.
search_news_http(q, u, f, o, n, w) ==
    IF o = "ok"
    THEN LET r == record_usage(u, f, "brave", w)
         IN  Step([q EXCEPT !.pc = "done",
                            !.response = [source |-> "brave_news", count |-> n,
                                          success |-> TRUE, is_fallback |-> "absent",
                                          results |-> Min(n, Count), ai |-> 0]],
                  r.usage, r.file, <<"brave">>)
    ELSE groq_knowledge_fallback_call(q, u, f, <<>>, w)

\* How often service s occurs in the sequence rec.
Times(rec, s) == Cardinality({i \in 1..Len(rec) : rec[i] = s})

\* The tier t joins q.ok when its HTTP call ended "ok".
Ended(q, t, o) == [q EXCEPT !.ok = IF o = "ok" THEN @ \cup {t} ELSE @]

\* The effect of a coroutine step on the shared state.
Commit(r, st) ==
    /\ req' = [req EXCEPT ![r] =
                 [st.req EXCEPT !.charged =
                     [s \in Services |-> req[r].charged[s] + Times(st.recorded, s)]]]
    /\ usage' = st.usage
    /\ file' = st.file
    /\ expected' = [s \in Services |-> expected[s] + Times(st.recorded, s)]
    /\ UNCHANGED <<now_month, instance, q_op, disk, brave_key, tavily_key>>
    /\ UNCHANGED <<routerVars, orchVars, sideVars>>

\* Requests are interchangeable: they are numbered in the order they start.
FreeSlot(r) ==
    /\ req[r].pc = "idle"
    /\ \A r2 \in Req : r2 < r => req[r2].pc # "idle"

\* await web_search.smart_search(query)
SmartSearch(r) ==
    /\ FreeSlot(r)
    /\ Commit(r, smart_search_brave([IdleReq EXCEPT !.kind = "smart"], usage, file, disk))

\* search_brave's HTTP call completes inside smart_search
BraveDone(r) ==
    /\ req[r].pc = "brave"
    /\ \E o \in HttpOutcome : \E n \in ResultsOf(o) :
        LET b == search_brave_http(usage, file, o, n, disk)
            q == [Ended(req[r], "brave", o) EXCEPT
                     !.results = b.results, !.n_brave = b.results,
                     !.source = IF b.results > 0 THEN "brave" ELSE @]
        IN  Commit(r, smart_search_tavily(q, b.usage, b.file, b.recorded, disk))

\* search_tavily's HTTP call completes inside smart_search
TavilyDone(r) ==
    /\ req[r].pc = "tavily"
    /\ \E o \in HttpOutcome : \E n \in ResultsOf(o) :
        LET t == search_tavily_http(usage, file, o, n, disk)
            q == [Ended(req[r], "tavily", o) EXCEPT
                     !.results = t.results, !.n_tavily = t.results,
                     !.source = IF t.results > 0 THEN "tavily" ELSE @]
        IN  Commit(r, smart_search_finish(q, t.usage, t.file, t.recorded, disk))

\* await web_search.search_news(query)
SearchNews(r) ==
    /\ FreeSlot(r)
    /\ Commit(r, search_news_call([IdleReq EXCEPT !.kind = "news"], usage, file, disk))

\* the Brave news call completes inside search_news
NewsDone(r) ==
    /\ req[r].pc = "news"
    /\ \E o \in HttpOutcome : \E n \in ResultsOf(o) :
        Commit(r, search_news_http(Ended(req[r], "news", o), usage, file, o, n, disk))

\* the model call of groq_knowledge_fallback completes
GroqDone(r) ==
    /\ req[r].pc = "groq"
    /\ \E o \in Outcome :
        Commit(r, Step([req[r] EXCEPT !.pc = "done",
                          !.response = groq_knowledge_fallback_response(groq_generate_response(o))],
                       usage, file, <<>>))

(***************************************************************************)
(* Part 4.  Orchestrator (process_message) and the quality-gate agents     *)
(***************************************************************************)

\* ---- text: a Python str is a sequence of one-character strings ----------

UpperOf == [a |-> "A", b |-> "B", c |-> "C", d |-> "D", e |-> "E", f |-> "F",
            g |-> "G", h |-> "H", i |-> "I", j |-> "J", k |-> "K", l |-> "L",
            m |-> "M", n |-> "N", o |-> "O", p |-> "P", q |-> "Q", r |-> "R",
            s |-> "S", t |-> "T", u |-> "U", v |-> "V", w |-> "W", x |-> "X",
            y |-> "Y", z |-> "Z"]

\* str.upper() and str.lower(), character by character
UpperChar(ch) == IF ch \in DOMAIN UpperOf THEN UpperOf[ch] ELSE ch
LowerChar(ch) ==
    IF \E l \in DOMAIN UpperOf : UpperOf[l] = ch
    THEN CHOOSE l \in DOMAIN UpperOf : UpperOf[l] = ch
    ELSE ch
upper(t) == [i \in 1..Len(t) |-> UpperChar(t[i])]
lower(t) == [i \in 1..Len(t) |-> LowerChar(t[i])]

\* t[:n]
Prefix(t, n) == SubSeq(t, 1, IF n <= Len(t) THEN n ELSE Len(t))

\* needle in t
Contains(t, needle) ==
    \E i \in 1..(Len(t) - Len(needle) + 1) :
        SubSeq(t, i, i + Len(needle) - 1) = needle

\* t.strip(), for the blanks the texts of the model carry
strip(t) ==
    IF \A i \in 1..Len(t) : t[i] = " " THEN <<>>
    ELSE LET first == CHOOSE i \in 1..Len(t) :
                          t[i] # " " /\ \A j \in 1..(i - 1) : t[j] = " "
             last  == CHOOSE i \in 1..Len(t) :
                          t[i] # " " /\ \A j \in (i + 1)..Len(t) : t[j] = " "
         IN  SubSeq(t, first, last)

\* t.split(needle)[-1], for a needle that occurs in t
AfterLast(t, needle) ==
    LET at == {i \in 1..(Len(t) - Len(needle) + 1) :
                  SubSeq(t, i, i + Len(needle) - 1) = needle}
        i  == CHOOSE k \in at : \A k2 \in at : k2 <= k
    IN  SubSeq(t, i + Len(needle), Len(t))

\* The texts of the model.
DraftText == <<"E", "a", "t", " ", "d", "a", "l">>
ToolText == <<"B", "M", "I", " ", "2", "4">>
ErrorText == <<"E", "r", "r", "o", "r", ":", " ", "G", "e", "m", "i", "n", "i">>
ApologyText == <<"I", " ", "a", "p", "o", "l", "o", "g", "i", "z", "e">>
AgentApologyText == <<"I", " ", "a", "p", "o", "l", "o", "g", "i", "z", "e", ",", " ", "i", "s", "s", "u", "e">>
IssueText == <<"i", "s", "s", "u", "e">>
DefaultResponse == <<"n", "o", "t", " ", "s", "u", "r", "e">>

\* result["response"] of the router as text; body is the backend's completion.
TextOf(kind, body) ==
    CASE kind = "answer"     -> body
      [] kind = "error_text" -> ErrorText
      [] kind = "empty"      -> <<>>
      [] OTHER               -> ApologyText

\* ---- model_router.generate as one call ----------------------------------

\* What the providers do during one call of generate(): h for each
\* provider's first invocation, again for a second invocation of Ollama.
\* For a configured provider, "timeout" stands for every failure: the
\* adapters treat a non-200 status the way they treat a timeout.
CallEnvs(a) ==
    {[h |-> [p \in Providers |->
                IF p \notin a THEN "no_key" ELSE IF p \in up THEN "ok" ELSE "timeout"],
      again |-> IF "ollama" \notin a THEN "no_key" ELSE again] :
        up \in SUBSET a, again \in {"ok", "timeout"}}

\* Routing execution from "1. Try Primary Provider" to the return.
\* c is is_complex as the stages read it ("undef" while unbound).
ModelRouter_generate(p, a, c, env) ==
    LET s1 == TryPrimary(p, a, c, env.h)
        s2 == TryBackup(a, c, IF s1.called = <<"ollama">> THEN env.again
                              ELSE env.h["ollama"])
        s3 == TryLastResort(env.h["gemini"])
    IN  IF s1.kind # "continue"
        THEN [raises |-> s1.kind = "propagate", result |-> s1.result]
        ELSE IF s2.kind # "continue"
        THEN [raises |-> s2.kind = "propagate", result |-> s2.result]
        ELSE [raises |-> FALSE, result |-> s3.result]

\* BaseAgent.generate: an auto-routed call; the text of the result, or the
\* agent's own apology when generate() raised.  v, c: the keyword scans of
\* the prompt for vision / complexity; f: fast.
BaseAgent_generate(a, env, v, c, f, body) ==
    LET g == ModelRouter_generate(SelectProvider(v, c, f, a), a, Bound(c), env)
    IN  IF g.raises
        THEN [text |-> AgentApologyText, provider |-> "none"]
        ELSE [text |-> TextOf(g.result.response, body), provider |-> g.result.provider]

\* ---- the specialists (agent.process) ------------------------------------

\* self.agents of Orchestrator.__init__
Agents == {"WellnessAgent", "ProtectionAgent", "GeneralAgent", "ToolAgent",
           "SearchAgent", "DeepResearchAgent", "DataAnalystAgent", "StudyAgent"}

\* The dict a specialist returns: success is "absent" when the dict has no
\* such key; provider is the provider whose completion became the response
\* (no specialist puts it in the dict).
AgentDict(text, success, sources, by) ==
    [raises |-> FALSE, response |-> text, success |-> success,
     sources |-> sources, provider |-> by]

\* An exception leaves agent.process.
AgentRaised ==
    [raises |-> TRUE, response |-> <<>>, success |-> "absent",
     sources |-> FALSE, provider |-> "none"]

\* WellnessAgent, ProtectionAgent, StudyAgent, GeneralAgent: self.generate
GenerateAgent_process(llm) == AgentDict(llm.text, "absent", FALSE, llm.provider)

\* ToolAgent.process: the templated result of the tool, or its failure text
ToolAgent_process(tool_ok) ==
    IF tool_ok THEN AgentDict(ToolText, "true", FALSE, "none")
    ELSE AgentDict(IssueText, "false", FALSE, "none")

\* SearchAgent.process: nothing found, or the synthesis by Groq, or on its
\* exception the formatted results
SearchAgent_process(found, groq) ==
    IF ~found THEN AgentDict(IssueText, "false", FALSE, "none")
    ELSE IF groq.raises THEN AgentDict(DraftText, "true", TRUE, "none")
    ELSE AgentDict(DraftText, "true", TRUE, "groq")

\* DeepResearchAgent.process: plan, searches and report, Groq called bare
DeepResearchAgent_process(found, groq) ==
    IF groq.raises THEN AgentRaised ELSE AgentDict(DraftText, "true", found, "groq")

\* DataAnalystAgent.process: plan, code, execution, interpretation
DataAnalystAgent_process(tool_ok, groq) ==
    IF groq.raises THEN AgentRaised
    ELSE AgentDict(DraftText, IF tool_ok THEN "true" ELSE "false", FALSE, "groq")

\* agent.process(user_message, context) of the agent named n.
\*   v, c       the router's keyword scans of the prompt
\*   tool_ok    the tool / the generated code ran
\*   found      the web search returned results
AgentProcess(n, a, env, v, c, tool_ok, found) ==
    LET llm  == BaseAgent_generate(a, env, v, c, n = "GeneralAgent", DraftText)
        groq == groq_generate_response(env.h["groq"])
    IN  CASE n \in {"WellnessAgent", "ProtectionAgent", "StudyAgent", "GeneralAgent"} ->
                GenerateAgent_process(llm)
          [] n = "ToolAgent" -> ToolAgent_process(tool_ok)
          [] n = "SearchAgent" -> SearchAgent_process(found, groq)
          [] n = "DeepResearchAgent" -> DeepResearchAgent_process(found, groq)
          [] OTHER -> DataAnalystAgent_process(tool_ok, groq)

\* ---- the classifier (RouterAgent) ----------------------------------------

\* valid_intents of RouterAgent.process, each with its text
IntentText ==
    [wellness |-> <<"w", "e", "l", "l", "n", "e", "s", "s">>,
     protection |-> <<"p", "r", "o", "t", "e", "c", "t", "i", "o", "n">>,
     tool |-> <<"t", "o", "o", "l">>,
     search |-> <<"s", "e", "a", "r", "c", "h">>,
     general |-> <<"g", "e", "n", "e", "r", "a", "l">>,
     research |-> <<"r", "e", "s", "e", "a", "r", "c", "h">>,
     analysis |-> <<"a", "n", "a", "l", "y", "s", "i", "s">>]

\* Completions the classifier's model can give.
ClassifierBodies ==
    {IntentText[n] : n \in DOMAIN IntentText}
    \cup {<<" ", "W", "e", "l", "l", "n", "e", "s", "s", " ">>, <<"u", "n", "s", "u", "r", "e">>}

\* RouterAgent._get_agent_for_intent
_get_agent_for_intent(intent) ==
    CASE intent = "wellness"   -> "WellnessAgent"
      [] intent = "protection" -> "ProtectionAgent"
      [] intent = "tool"       -> "ToolAgent"
      [] intent = "search"     -> "SearchAgent"
      [] intent = "research"   -> "DeepResearchAgent"
      [] intent = "analysis"   -> "DataAnalystAgent"
      [] OTHER                 -> "GeneralAgent"

\* RouterAgent.process from the classification text on.
RouterAgent_process(classification) ==
    LET t      == lower(strip(classification))
        intent == IF \E n \in DOMAIN IntentText : IntentText[n] = t
                  THEN CHOOSE n \in DOMAIN IntentText : IntentText[n] = t
                  ELSE "general"
    IN  [intent |-> intent, route_to |-> _get_agent_for_intent(intent)]

\* ---- the Critic ----------------------------------------------------------

Disclaimer == <<" ", "_", "D", "i", "s", "c", "l", "a", "i", "m", "e", "r", "_">>

\* Completions the reviewer model can give.
CriticBodies == {<<"A", "P", "P", "R", "O", "V", "E", "D", ":", " ", "y", "e", "s">>, <<"A", "P", "P", "R", "O", "V", "E", "D", ":", " ", "n", "o", " ", "I", "M", "P", "R", "O", "V", "E", "D", ":", " ", "R", "e", "s", "t", " ">>, <<"A", "P", "P", "R", "O", "V", "E", "D", ":", " ", "n", "o">>, <<"I", "M", "P", "R", "O", "V", "E", "D", ":">>}

\* Lines 47-66 of CriticAgent.process: the drafts approved without a review.
LowRisk_general(intent, tool_success) == intent = "general"
LowRisk(intent, tool_success) ==
    intent = "general" \/ (intent = "tool" /\ tool_success)

\* A Critic that rejects a draft the reviewer neither approved nor improved.
CriticAgent_process_blocking(draft_response, intent, tool_success, review_result) ==
    LET Auto == [approved |-> TRUE, final_response |-> draft_response, reviewer |-> FALSE]
        approved ==
            \/ Contains(lower(review_result), <<"A", "P", "P", "R", "O", "V", "E", "D", ":", " ", "y", "e", "s">>)
            \/ Contains(lower(review_result), <<"a", "p", "p", "r", "o", "v", "e", "d", ":", " ", "y", "e", "s">>)
    IN  IF LowRisk(intent, tool_success) THEN Auto
        ELSE IF approved
        THEN [approved |-> TRUE, final_response |-> draft_response, reviewer |-> TRUE]
        ELSE IF Contains(review_result, <<"I", "M", "P", "R", "O", "V", "E", "D", ":">>)
        THEN [approved |-> TRUE,
              final_response |-> strip(AfterLast(review_result, <<"I", "M", "P", "R", "O", "V", "E", "D", ":">>)),
              reviewer |-> TRUE]
        ELSE [approved |-> FALSE, final_response |-> draft_response,
              reviewer |-> TRUE]

\* CriticAgent.process.  review_result is what self.generate returns when the
\* reviewer model is called; reviewer tells whether it was called.
CriticAgent_process(draft_response, intent, tool_success, review_result) ==
    LET Auto == [approved |-> TRUE, final_response |-> draft_response, reviewer |-> FALSE]
        approved ==
            \/ Contains(lower(review_result), <<"A", "P", "P", "R", "O", "V", "E", "D", ":", " ", "y", "e", "s">>)
            \/ Contains(lower(review_result), <<"a", "p", "p", "r", "o", "v", "e", "d", ":", " ", "y", "e", "s">>)
    IN  IF LowRisk(intent, tool_success) THEN Auto
        ELSE IF approved
        THEN [approved |-> TRUE, final_response |-> draft_response, reviewer |-> TRUE]
        ELSE IF Contains(review_result, <<"I", "M", "P", "R", "O", "V", "E", "D", ":">>)
        THEN [approved |-> TRUE,
              final_response |-> strip(AfterLast(review_result, <<"I", "M", "P", "R", "O", "V", "E", "D", ":">>)),
              reviewer |-> TRUE]
        ELSE [approved |-> TRUE, final_response |-> draft_response \o Disclaimer,
              reviewer |-> TRUE]

\* ---- the Cross-Verifier --------------------------------------------------

\* Completions the verifier model can give.
VerifierBodies == {<<"S", "A", "F", "E">>, <<"s", "a", "f", "e", ".">>, <<"U", "n", "s", "a", "f", "e", ":", " ", "r", "e", "s", "t">>, <<"R", "e", "s", "t", " ", "m", "o", "r", "e">>, <<"R", "e", "s", "t", ",", " ", "i", "t", " ", "i", "s", " ", "S", "A", "F", "E">>}

\* CrossVerifierAgent.process(response, context).  asked is the provider it
\* forces, by the provider whose completion came back, text the verdict.
CrossVerifierAgent_process(response, provider_used, a, env, body) ==
    LET verifier_provider == IF provider_used = "groq" THEN "gemini" ELSE "groq"
        g == ModelRouter_generate(verifier_provider, a, "undef", env)
        result_text == TextOf(g.result.response, body)
    IN  IF g.raises
        THEN [verified |-> TRUE, response |-> response, asked |-> verifier_provider,
              by |-> "none", text |-> <<>>, raised |-> TRUE]
        ELSE IF Contains(upper(Prefix(result_text, 10)), <<"S", "A", "F", "E">>)
        THEN [verified |-> TRUE, response |-> response, asked |-> verifier_provider,
              by |-> g.result.provider, text |-> result_text, raised |-> FALSE]
        ELSE [verified |-> FALSE, response |-> result_text, asked |-> verifier_provider,
              by |-> g.result.provider, text |-> result_text, raised |-> FALSE]

\* ---- the Fact-Checker ---------------------------------------------------

MaxLines == 3         \* lines the claim-extraction completion can have
MaxClaims == 5        \* claims[:5] of _extract_claims
TopClaims == 3        \* claims[:3] of process
Threshold == 600      \* confidence < 0.6, in thousandths

RevisedText == <<"E", "a", "t", " ", "w", "e", "l", "l">>
Note == <<" ", "N", "o", "t", "e", ":", " ", "u", "n", "v", "e", "r", "i", "f", "i", "e", "d">>

\* How the verification of one claim ends (_verify_claim): the search found
\* nothing, the model's answer holds "supported", else "contradicted", else
\* neither, or the search or the model call raised.
ClaimOutcomes == {"no_results", "supported", "contradicted", "unclear", "error"}

\* The confidence _verify_claim gives, in tenths.
Score(o) ==
    CASE o = "supported"    -> 9
      [] o = "contradicted" -> 1
      [] o = "unclear"      -> 5
      [] OTHER              -> 3

RECURSIVE SumScores(_, _)
SumScores(verdicts, k) ==
    IF k = 0 THEN 0 ELSE Score(verdicts[k]) + SumScores(verdicts, k - 1)

\* _calculate_confidence, in thousandths (rounded down)
_calculate_confidence(verdicts, k) ==
    IF k = 0 THEN 800 ELSE (SumScores(verdicts, k) * 100) \div k

\* _rewrite_with_corrections: the model's revision, or on an exception the
\* original with the note appended.
_rewrite_with_corrections(original, rewrite_ok) ==
    IF rewrite_ok THEN RevisedText ELSE original \o Note

\* FactCheckerAgent.process.
\*   extract_ok, lines  the extraction call returned, with so many lines
\*   verdicts           how the verification of the i-th claim ends
\*   rewrite_ok         the rewrite call returned
fact_checker_process(message, extract_ok, lines, verdicts, rewrite_ok) ==
    LET claims     == IF ~extract_ok THEN 0 ELSE Min(lines, MaxClaims)
        checked    == Min(claims, TopClaims)
        confidence == _calculate_confidence(verdicts, checked)
    IN  IF claims = 0
        THEN [verified_response |-> message, confidence |-> 950, verified |-> TRUE,
              claims_checked |-> 0, verify_calls |-> 0, rewritten |-> FALSE]
        ELSE [verified_response |->
                  IF confidence < Threshold
                  THEN _rewrite_with_corrections(message, rewrite_ok)
                  ELSE message,
              confidence |-> confidence,
              verified |-> confidence >= Threshold,
              claims_checked |-> claims,
              verify_calls |-> checked,
              rewritten |-> confidence < Threshold]

\* ---- process_message -----------------------------------------------------

\* A message as the fast path sees it:
\*   greeting   msg_lower is one of the greetings
\*   tool_kw    it holds one of calculate, bmi, premium, cost, price, sum, multiply
\*   bmi_calc   it holds bmi or calculate
\*   search_kw  it holds one of latest, news, current, today, weather, who is,
\*              what is, price of, cost of, vs, versus
\*   you        it holds "you"
Messages ==
    {m \in [greeting : BOOLEAN, tool_kw : BOOLEAN, bmi_calc : BOOLEAN,
            search_kw : BOOLEAN, you : BOOLEAN] :
        /\ m.greeting => ~(m.tool_kw \/ m.search_kw \/ m.you)
        /\ m.bmi_calc => m.tool_kw
        /\ m.you => m.search_kw /\ ~m.tool_kw}

NoMsg == [greeting |-> FALSE, tool_kw |-> FALSE, bmi_calc |-> FALSE,
          search_kw |-> FALSE, you |-> FALSE]

\* Values of the force_agent argument: none, or one of two agents.
ForceAgents == {"None", "DeepResearchAgent", "StudyAgent"}

\* The credential configurations process_message is run under.
Configs ==
    {Providers, {}, {"gemini"}, {"groq"}, {"groq", "gemini"}, {"ollama", "gemini"},
     {"openrouter", "gemini"}}

\* Lines 88-122: the intent and agent the fast path fixes ("None": none).
FastPath(m) ==
    IF m.greeting THEN [intent |-> "general", agent_name |-> "GeneralAgent"]
    ELSE IF m.tool_kw
    THEN IF m.bmi_calc THEN [intent |-> "tool", agent_name |-> "ToolAgent"]
         ELSE [intent |-> "None", agent_name |-> "None"]
    ELSE IF m.search_kw
    THEN IF ~m.you THEN [intent |-> "search", agent_name |-> "SearchAgent"]
         ELSE [intent |-> "None", agent_name |-> "None"]
    ELSE [intent |-> "None", agent_name |-> "None"]

\* The intents the Critic is skipped for (line 150).
CriticSkipped_general == {"general"}
CriticSkipped == {"general", "tool"}

\* The intents the Cross-Verifier runs for (line 158).
HighStakes_all == {"wellness", "protection", "research", "search"}
HighStakes == {"wellness", "protection", "research"}

\* The intents the Fact-Checker runs for when verify_facts is set (line 173).
FactChecked == {"search", "wellness"}

NoReview == [approved |-> TRUE, final_response |-> <<>>, reviewer |-> FALSE]
NoCross == [verified |-> TRUE, response |-> <<>>, asked |-> "none", by |-> "none",
            text |-> <<>>, raised |-> FALSE]
NoVerification == [verified_response |-> <<>>, confidence |-> 0, verified |-> FALSE,
                   claims_checked |-> 0, verify_calls |-> 0, rewritten |-> FALSE]
NoOut == [response |-> <<>>, intent |-> "None", agent_used |-> "None",
          reviewed |-> FALSE, verified |-> FALSE, confidence |-> 0]

\* process_message before it is called.
\*   stages          the stages entered so far, in order
\*   classified_by   "force", "fast_path" or "classifier"
\*   draft_provider  the provider whose completion became the draft
\*   critic_in, cross_in, fact_in   the text each quality-gate stage was given
\*   has             which of review, cross_check, verification_result are set
\*   history         roles of the messages added to the short-term history
\*   saved           the text saved to the history as the assistant's answer
\*   scheduled       the background persistence task was created
\*   raised          an exception left process_message
\*   status          the HTTP status process_query answers with (0: none yet)
IdleOrch ==
    [pc |-> "idle", msg |-> NoMsg, force_agent |-> "None", verify_facts |-> FALSE,
     intent |-> "None", agent_name |-> "None", classified_by |-> "none",
     stages |-> <<>>, draft_response |-> <<>>, tool_success |-> TRUE,
     draft_provider |-> "none", critic_in |-> <<>>, cross_in |-> <<>>, fact_in |-> <<>>,
     has |-> {}, review |-> NoReview, final_response |-> <<>>, cross_check |-> NoCross,
     verification_result |-> NoVerification, history |-> <<>>, saved |-> <<>>,
     scheduled |-> FALSE, raised |-> FALSE, out |-> NoOut, status |-> 0]

OrchIdle == orch = IdleOrch

\* process_query of the API: the status it answers with when
\* process_message returned, or when an exception left it.
process_query(exc) == IF exc THEN 500 ELSE 200

\* Lines 66-123: the call, up to the classifier's await or the dispatch.
process_message ==
    /\ orch.pc = "idle"
    /\ \E m \in Messages, fa \in ForceAgents, vf \in BOOLEAN :
        LET o == [orch EXCEPT !.msg = m, !.force_agent = fa, !.verify_facts = vf,
                              !.history = <<"user">>]
            fp == FastPath(m)
        IN  orch' =
              IF fa \in Agents
              THEN [o EXCEPT !.pc = "dispatch", !.agent_name = fa,
                             !.intent = IF fa = "DeepResearchAgent"
                                        THEN "research" ELSE "analysis",
                             !.classified_by = "force",
                             !.stages = <<"classify">>]
              ELSE IF fp.intent # "None"
              THEN [o EXCEPT !.pc = "dispatch", !.agent_name = fp.agent_name,
                             !.intent = fp.intent, !.classified_by = "fast_path",
                             !.stages = <<"classify">>]
              ELSE [o EXCEPT !.pc = "classify"]
    /\ UNCHANGED <<routerVars, quotaVars, searchVars, sideVars>>

\* What one call of BaseAgent.generate can give, over what the providers do,
\* the complexity the router finds and the completions in bodies.
Completions(a, f, bodies) ==
    {BaseAgent_generate(a, env, FALSE, c, f, body) :
        env \in CallEnvs(a), c \in BOOLEAN, body \in bodies}

\* Lines 125-128: routing = await router_agent.process(user_message)
Classify ==
    /\ orch.pc = "classify"
    /\ \E classification \in Completions(avail, FALSE, ClassifierBodies) :
        LET routing == RouterAgent_process(classification.text)
        IN  orch' = [orch EXCEPT !.pc = "dispatch", !.intent = routing.intent,
                                 !.agent_name = routing.route_to,
                                 !.classified_by = "classifier",
                                 !.stages = <<"classify">>]
    /\ UNCHANGED <<routerVars, quotaVars, searchVars, sideVars>>

\* Lines 130-141: agent_result = await agent.process(user_message, context)
Dispatch ==
    /\ orch.pc = "dispatch"
    /\ LET agent == IF orch.agent_name \in Agents THEN orch.agent_name
                    ELSE "GeneralAgent"
       IN  \E agent_result \in
                {AgentProcess(agent, avail, env, v, c, tool_ok, found) :
                    env \in CallEnvs(avail), v \in BOOLEAN, c \in BOOLEAN,
                    tool_ok \in BOOLEAN, found \in BOOLEAN} :
             orch' =
               IF agent_result.raises
               THEN [orch EXCEPT !.pc = "done", !.raised = TRUE,
                                 !.stages = Append(@, "dispatch"),
                                 !.status = process_query(TRUE)]
               ELSE [orch EXCEPT !.pc = "critic",
                                 !.stages = Append(@, "dispatch"),
                                 !.draft_response = agent_result.response,
                                 !.draft_provider = agent_result.provider,
                                 !.tool_success = (agent_result.success # "false")]
    /\ UNCHANGED <<routerVars, quotaVars, searchVars, sideVars>>

\* Lines 143-155: the Critic, skipped for general and tool intents.
Review ==
    /\ orch.pc = "critic"
    /\ IF orch.intent \notin CriticSkipped
       THEN \E review_result \in Completions(avail, FALSE, CriticBodies) :
              LET review == CriticAgent_process(orch.draft_response, orch.intent,
                                                orch.tool_success, review_result.text)
              IN  orch' = [orch EXCEPT !.pc = "cross", !.stages = Append(@, "critic"),
                                       !.critic_in = orch.draft_response,
                                       !.has = @ \cup {"review"},
                                       !.review = review,
                                       !.final_response = review.final_response]
       ELSE orch' = [orch EXCEPT !.pc = "cross",
                                 !.final_response = orch.draft_response]
    /\ UNCHANGED <<routerVars, quotaVars, searchVars, sideVars>>

\* A Cross-Verifier stage that reads the specialist's draft, not the
\* Critic's output.
CrossVerify_on_draft ==
    /\ orch.pc = "cross"
    /\ IF orch.intent \in HighStakes
       THEN \E cross_check \in
                {CrossVerifierAgent_process(orch.draft_response, "unknown",
                                            avail, env, body) :
                    env \in CallEnvs(avail), body \in VerifierBodies} :
              orch' = [orch EXCEPT !.pc = "fact", !.stages = Append(@, "cross"),
                                   !.cross_in = orch.draft_response,
                                   !.has = @ \cup {"cross_check"},
                                   !.cross_check = cross_check,
                                   !.final_response =
                                       IF ~cross_check.verified
                                       THEN cross_check.response
                                       ELSE orch.draft_response]
       ELSE orch' = [orch EXCEPT !.pc = "fact"]
    /\ UNCHANGED <<routerVars, quotaVars, searchVars, sideVars>>

\* Lines 157-168: the Cross-Verifier, for the high-stakes intents.
CrossVerify ==
    /\ orch.pc = "cross"
    /\ IF orch.intent \in HighStakes
       THEN \E cross_check \in
                {CrossVerifierAgent_process(orch.final_response, "unknown",
                                            avail, env, body) :
                    env \in CallEnvs(avail), body \in VerifierBodies} :
              orch' = [orch EXCEPT !.pc = "fact", !.stages = Append(@, "cross"),
                                   !.cross_in = orch.final_response,
                                   !.has = @ \cup {"cross_check"},
                                   !.cross_check = cross_check,
                                   !.final_response =
                                       IF ~cross_check.verified
                                       THEN cross_check.response ELSE @]
       ELSE orch' = [orch EXCEPT !.pc = "fact"]
    /\ UNCHANGED <<routerVars, quotaVars, searchVars, sideVars>>

\* Lines 170-185: the Fact-Checker, when enabled, for search and wellness.
FactCheck ==
    /\ orch.pc = "fact"
    /\ IF orch.verify_facts /\ orch.intent \in FactChecked
       THEN \E verification_result \in
                {fact_checker_process(orch.final_response, extract_ok, lines,
                                      verdicts, rewrite_ok) :
                    extract_ok \in BOOLEAN, lines \in 0..MaxLines,
                    verdicts \in [1..TopClaims -> ClaimOutcomes],
                    rewrite_ok \in BOOLEAN} :
              orch' = [orch EXCEPT !.pc = "persist", !.stages = Append(@, "fact"),
                                   !.fact_in = orch.final_response,
                                   !.has = @ \cup {"verification_result"},
                                   !.verification_result = verification_result,
                                   !.final_response =
                                       IF verification_result.verified
                                       THEN verification_result.verified_response
                                       ELSE @]
       ELSE orch' = [orch EXCEPT !.pc = "persist"]
    /\ UNCHANGED <<routerVars, quotaVars, searchVars, sideVars>>

\* Line 205: "reviewed": review.get("approved", True)
Reviewed(has_review, review) == IF has_review THEN review.approved ELSE TRUE

\* Lines 187-210: save to the history, create the background task, return.
Return ==
    /\ orch.pc = "persist"
    /\ orch' = [orch EXCEPT
          !.pc = "done",
          !.stages = @ \o <<"persist", "return">>,
          !.history = Append(@, "assistant"),
          !.saved = orch.final_response,
          !.scheduled = TRUE,
          !.status = process_query(FALSE),
          !.out = [response |-> orch.final_response,
                   intent |-> orch.intent,
                   agent_used |-> orch.agent_name,
                   reviewed |-> Reviewed("review" \in orch.has, orch.review),
                   verified |-> IF "verification_result" \in orch.has
                                THEN orch.verification_result.verified ELSE FALSE,
                   confidence |-> IF "verification_result" \in orch.has
                                  THEN orch.verification_result.confidence ELSE 0]]
    /\ UNCHANGED <<routerVars, quotaVars, searchVars, sideVars>>

(***************************************************************************)
(* Part 5: FactCheckerAgent.process called on its own                      *)
(***************************************************************************)

MaxExtract == 6       \* lines the claim-extraction completion can have here

\* Answers the verification model can give.
VerdictBodies ==
    {<<"S", "U", "P", "P", "O", "R", "T", "E", "D">>,
     <<"C", "O", "N", "T", "R", "A", "D", "I", "C", "T", "E", "D">>,
     <<"U", "N", "C", "L", "E", "A", "R">>,
     <<"U", "N", "C", "L", "E", "A", "R", ":", " ", "n", "o", "t", " ", "s", "u", "p", "p", "o", "r", "t", "e", "d">>,
     <<"M", "a", "y", "b", "e">>}

\* What happens while one claim is verified: the search reports no success,
\* the search raises, the model call raises, or the model answers.
VerifyEvents ==
    {[search |-> "no_results", llm_raises |-> FALSE, answer |-> <<>>],
     [search |-> "raises", llm_raises |-> FALSE, answer |-> <<>>],
     [search |-> "found", llm_raises |-> TRUE, answer |-> <<>>]}
    \cup {[search |-> "found", llm_raises |-> FALSE, answer |-> b] : b \in VerdictBodies}

\* _verify_claim: how the verification of one claim ends.
_verify_claim(ev) ==
    IF ev.search = "raises" THEN "error"
    ELSE IF ev.search = "no_results" THEN "no_results"
    ELSE IF ev.llm_raises THEN "error"
    ELSE IF Contains(lower(ev.answer), <<"s", "u", "p", "p", "o", "r", "t", "e", "d">>) THEN "supported"
    ELSE IF Contains(lower(ev.answer), <<"c", "o", "n", "t", "r", "a", "d", "i", "c", "t", "e", "d">>) THEN "contradicted"
    ELSE "unclear"

NoFactCall ==
    [pc |-> "idle", message |-> <<>>, extract_ok |-> FALSE, lines |-> 0,
     events |-> <<>>, scores |-> <<>>, searches |-> 0, rewrites |-> 0,
     result |-> NoVerification]

FactIdle == fc = NoFactCall

\* One call of fact_checker.process(message, context), start to return.
FactCheckerCall ==
    /\ fc.pc = "idle"
    /\ \E message \in {DraftText, ToolText}, extract_ok \in BOOLEAN,
          lines \in 0..MaxExtract, events \in [1..TopClaims -> VerifyEvents],
          rewrite_ok \in BOOLEAN :
        LET verdicts == [i \in 1..TopClaims |-> _verify_claim(events[i])]
            outcome  == fact_checker_process(message, extract_ok, lines,
                                             verdicts, rewrite_ok)
            checked  == outcome.verify_calls
        IN  fc' = [pc |-> "done", message |-> message, extract_ok |-> extract_ok,
                   lines |-> lines,
                   events |-> SubSeq(events, 1, checked),
                   scores |-> [i \in 1..checked |-> Score(verdicts[i])],
                   searches |-> checked,
                   rewrites |-> IF outcome.rewritten THEN 1 ELSE 0,
                   result |-> outcome]
    /\ UNCHANGED <<routerVars, quotaVars, searchVars, orchVars,
                   criticVars, persistVars, limiterVars>>

(***************************************************************************)
(* Part 6: CriticAgent.process called on its own, twice                    *)
(***************************************************************************)

\* Drafts handed to the Critic.
CriticDrafts == {DraftText, ToolText, ErrorText}

NoCriticCall ==
    [pc |-> "idle", intent |-> "None", tool_success |-> TRUE, draft |-> <<>>,
     review_result |-> <<>>, reviewer_calls |-> 0, first |-> NoReview,
     second |-> NoReview, reviewed |-> FALSE]

CriticIdle == crit = NoCriticCall

\* critic_agent.process(user_message, critic_context) on a draft.
CriticCall ==
    /\ crit.pc = "idle"
    /\ \E intent \in DOMAIN IntentText, tool_success \in BOOLEAN,
          draft \in CriticDrafts,
          review_result \in Completions(avail, FALSE, CriticBodies) :
        LET review == CriticAgent_process(draft, intent, tool_success,
                                          review_result.text)
        IN  crit' = [crit EXCEPT
                        !.pc = "once", !.intent = intent,
                        !.tool_success = tool_success, !.draft = draft,
                        !.review_result = IF review.reviewer THEN review_result.text
                                          ELSE <<>>,
                        !.reviewer_calls = IF review.reviewer THEN 1 ELSE 0,
                        !.first = review,
                        !.reviewed = Reviewed(TRUE, review)]
    /\ UNCHANGED <<routerVars, quotaVars, searchVars, orchVars,
                   factVars, persistVars, limiterVars>>

\* The Critic applied to its own output, same intent and tool_success.
CriticAgain ==
    /\ crit.pc = "once"
    /\ \E review_result \in Completions(avail, FALSE, CriticBodies) :
        LET review == CriticAgent_process(crit.first.final_response, crit.intent,
                                          crit.tool_success, review_result.text)
        IN  crit' = [crit EXCEPT
                        !.pc = "twice",
                        !.reviewer_calls = @ + (IF review.reviewer THEN 1 ELSE 0),
                        !.second = review]
    /\ UNCHANGED <<routerVars, quotaVars, searchVars, orchVars,
                   factVars, persistVars, limiterVars>>

(***************************************************************************)
(* Part 7: the background persistence task                                 *)
(***************************************************************************)

NoTask == [pc |-> "none", arg |-> <<>>, stored |-> <<>>, failed_at |-> "none"]

PersistIdle == bg = NoTask

\* A task body without its handler: the exception ends the task.
background_except_missing(task, at) ==
    [task EXCEPT !.pc = "raised", !.failed_at = at]

\* except Exception as e: print(...)   (lines 247-248)
background_except(task, at) ==
    [task EXCEPT !.pc = "logged", !.failed_at = at]

\* The event loop starts the task that process_message created (line 191),
\* with the final_response it was given.
TaskStart ==
    /\ orch.scheduled
    /\ bg.pc = "none"
    /\ bg' = [bg EXCEPT !.pc = "store_user", !.arg = orch.final_response]
    /\ UNCHANGED <<routerVars, quotaVars, searchVars, orchVars,
                   factVars, criticVars, limiterVars>>

\* 1. Store User Message (lines 227-233)
StoreUser ==
    /\ bg.pc = "store_user"
    /\ \E ok \in BOOLEAN :
        bg' = IF ok THEN [bg EXCEPT !.pc = "embed", !.stored = Append(@, "user")]
              ELSE background_except(bg, "store_user")
    /\ UNCHANGED <<routerVars, quotaVars, searchVars, orchVars,
                   factVars, criticVars, limiterVars>>

\* 2. Generate Assistant Embedding (line 236)
EmbedAssistant ==
    /\ bg.pc = "embed"
    /\ \E ok \in BOOLEAN :
        bg' = IF ok THEN [bg EXCEPT !.pc = "store_assistant"]
              ELSE background_except(bg, "embed")
    /\ UNCHANGED <<routerVars, quotaVars, searchVars, orchVars,
                   factVars, criticVars, limiterVars>>

\* 3. Store Assistant Message (lines 239-245)
StoreAssistant ==
    /\ bg.pc = "store_assistant"
    /\ \E ok \in BOOLEAN :
        bg' = IF ok THEN [bg EXCEPT !.pc = "stored", !.stored = Append(@, "assistant")]
              ELSE background_except(bg, "store_assistant")
    /\ UNCHANGED <<routerVars, quotaVars, searchVars, orchVars,
                   factVars, criticVars, limiterVars>>

(***************************************************************************)
(* Part 8: InMemoryRateLimiter                                             *)
(***************************************************************************)

RateLimit == 2        \* limit of the vision endpoints (5 in the source)
WindowSeconds == 2    \* window_seconds of the vision endpoints (3600)
MaxClock == 3         \* the clock runs from 0 to MaxClock

\* rate_key values: one per client address
Keys == {"vision:a", "vision:b"}

\* [t for t in self._requests[key] if t > window_start]
Prune(ts, window_start) == SelectSeq(ts, LAMBDA t : t > window_start)

\* A limiter that admits while the list is not longer than the limit.
allow_off_by_one(ts, now, limit, window_seconds) ==
    LET kept == Prune(ts, now - window_seconds)
    IN  IF Len(kept) > limit THEN [ret |-> FALSE, requests |-> kept]
        ELSE [ret |-> TRUE, requests |-> Append(kept, now)]

\* InMemoryRateLimiter.allow on the list ts of its key at time now: what it
\* returns and the list it leaves.
allow(ts, now, limit, window_seconds) ==
    LET kept == Prune(ts, now - window_seconds)
    IN  IF Len(kept) >= limit THEN [ret |-> FALSE, requests |-> kept]
        ELSE [ret |-> TRUE, requests |-> Append(kept, now)]

\* InMemoryRateLimiter.get_remaining
limiter_get_remaining(ts, limit) == Max(0, limit - Len(ts))

\* rl.granted[k][t] counts the calls for k that returned True at time t
\* since the key was last reset.
NoGrants == [k \in Keys |-> [t \in 0..MaxClock |-> 0]]

LimiterIdle ==
    /\ requests = [k \in Keys |-> <<>>]
    /\ clock = 0
    /\ rl = [op |-> "none", key |-> "none", ret |-> "none", remaining |-> 0,
             granted |-> NoGrants]

\* Time passes.
ClockTick ==
    /\ clock < MaxClock
    /\ clock' = clock + 1
    /\ UNCHANGED <<requests, rl>>
    /\ UNCHANGED <<routerVars, quotaVars, searchVars, orchVars,
                   factVars, criticVars, persistVars>>

\* rate_limiter.allow(rate_key, limit=5, window_seconds=3600), under the lock
Allow ==
    /\ \E k \in Keys :
        LET r == allow(requests[k], clock, RateLimit, WindowSeconds)
        IN  /\ requests' = [requests EXCEPT ![k] = r.requests]
            /\ rl' = [rl EXCEPT
                        !.op = "allow", !.key = k,
                        !.ret = IF r.ret THEN "true" ELSE "false",
                        !.granted[k][clock] = IF r.ret THEN @ + 1 ELSE @]
    /\ UNCHANGED clock
    /\ UNCHANGED <<routerVars, quotaVars, searchVars, orchVars,
                   factVars, criticVars, persistVars>>

\* rate_limiter.get_remaining(rate_key, limit=5)
RateLimitStatus ==
    /\ \E k \in Keys :
        rl' = [rl EXCEPT !.op = "get_remaining", !.key = k, !.ret = "none",
                         !.remaining = limiter_get_remaining(requests[k], RateLimit)]
    /\ UNCHANGED <<requests, clock>>
    /\ UNCHANGED <<routerVars, quotaVars, searchVars, orchVars,
                   factVars, criticVars, persistVars>>

\* rate_limiter.reset(key)
Reset ==
    /\ \E k \in Keys :
        /\ requests[k] # <<>>
        /\ requests' = [requests EXCEPT ![k] = <<>>]
        /\ rl' = [rl EXCEPT !.op = "reset", !.key = k, !.ret = "none",
                            !.granted[k] = [t \in 0..MaxClock |-> 0]]
    /\ UNCHANGED clock
    /\ UNCHANGED <<routerVars, quotaVars, searchVars, orchVars,
                   factVars, criticVars, persistVars>>

SideIdle == FactIdle /\ CriticIdle /\ PersistIdle /\ LimiterIdle

(***************************************************************************)
(* Specifications                                                          *)
(***************************************************************************)

RouterIdle(a) ==
    /\ avail = a
    /\ pc = "idle"
    /\ auto = FALSE
    /\ provider = "auto"
    /\ is_complex = "undef"
    /\ is_vision = "undef"
    /\ health = [p \in Providers |-> IF p \in a THEN "ok" ELSE "no_key"]
    /\ search_llm = <<>>
    /\ calls = <<>>
    /\ result = NoResult
    /\ raised = FALSE

QuotaIdle ==
    /\ now_month = 0
    /\ instance = 0
    /\ usage = NewMonth(0)
    /\ file = FileOf(NewMonth(0))
    /\ expected = Counts(NewMonth(0))
    /\ q_op = NoOp
    /\ disk = "ok"

SearchIdle ==
    /\ brave_key = FALSE
    /\ tavily_key = FALSE
    /\ req = [r \in Req |-> IdleReq]

\* The model router serving one request, for every credential configuration.
InitRouter ==
    (\E a \in SUBSET Providers : RouterIdle(a)) /\ QuotaIdle /\ SearchIdle /\ OrchIdle /\ SideIdle
NextRouter ==
    \/ Generate_Auto
    \/ Generate_Forced
    \/ Generate_Primary
    \/ Generate_Backup
    \/ Generate_LastResort
SpecRouter == InitRouter /\ [][NextRouter]_vars

\* The quota ledger under direct calls, a running clock and restarts.
InitQuota ==
    RouterIdle({}) /\ (\E f0 \in InitialFiles : QuotaInit(f0)) /\ SearchIdle /\ OrchIdle /\ SideIdle
NextQuota ==
    \/ Tick
    \/ DiskChange
    \/ Restart
    \/ CanUse
    \/ RecordUsage
    \/ GetRemaining
SpecQuota == InitQuota /\ [][NextQuota]_vars

\* The search gateway serving concurrent requests, for every key configuration
\* and every condition of the disk (which stays as it is during the run).
InitSearch ==
    /\ RouterIdle({})
    /\ \E f0 \in SearchFiles : QuotaInit(f0)
    /\ brave_key \in BOOLEAN
    /\ tavily_key \in BOOLEAN
    /\ req = [r \in Req |-> IdleReq]
    /\ OrchIdle /\ SideIdle
NextSearch ==
    \E r \in Req :
        \/ SmartSearch(r)
        \/ BraveDone(r)
        \/ TavilyDone(r)
        \/ SearchNews(r)
        \/ NewsDone(r)
        \/ GroqDone(r)
SpecSearch == InitSearch /\ [][NextSearch]_vars

\* One run of process_message, for every credential configuration.
InitPipeline ==
    (\E a \in Configs : RouterIdle(a)) /\ QuotaIdle /\ SearchIdle /\ OrchIdle /\ SideIdle
NextPipeline ==
    \/ process_message
    \/ Classify
    \/ Dispatch
    \/ Review
    \/ CrossVerify
    \/ FactCheck
    \/ Return
SpecPipeline == InitPipeline /\ [][NextPipeline]_vars

\* One call of the Fact-Checker, over its inputs.
InitFactCheck ==
    RouterIdle(Providers) /\ QuotaIdle /\ SearchIdle /\ OrchIdle /\ SideIdle
NextFactCheck == FactCheckerCall
SpecFactCheck == InitFactCheck /\ [][NextFactCheck]_vars

\* The Critic applied to a draft and then to its own output.
InitCritic ==
    RouterIdle(Providers) /\ QuotaIdle /\ SearchIdle /\ OrchIdle /\ SideIdle
NextCritic ==
    \/ CriticCall
    \/ CriticAgain
SpecCritic == InitCritic /\ [][NextCritic]_vars

\* process_message followed by its background task, all providers configured.
InitPersist ==
    RouterIdle(Providers) /\ QuotaIdle /\ SearchIdle /\ OrchIdle /\ SideIdle
NextPersist ==
    \/ process_message
    \/ Classify
    \/ Dispatch
    \/ Review
    \/ CrossVerify
    \/ FactCheck
    \/ Return
    \/ TaskStart
    \/ StoreUser
    \/ EmbedAssistant
    \/ StoreAssistant
SpecPersist == InitPersist /\ [][NextPersist]_vars

\* The rate limiter under calls for two keys while time passes.
InitLimiter ==
    RouterIdle({}) /\ QuotaIdle /\ SearchIdle /\ OrchIdle /\ SideIdle
NextLimiter ==
    \/ ClockTick
    \/ Allow
    \/ RateLimitStatus
    \/ Reset
SpecLimiter == InitLimiter /\ [][NextLimiter]_vars

(***************************************************************************)
(* Claims about the model router (checked under SpecRouter)                *)
(***************************************************************************)

Done == pc = "done"
Last(q) == q[Len(q)]
Failing(p) == health[p] \in {"http_error", "timeout"}

\* C1: generate() returns a dict carrying a response text for every request
\* and every combination of provider availability and provider failure; no
\* exception ever leaves generate().
C1_AlwaysReturns ==
    /\ ~raised
    /\ Done => result.response \in {"answer", "error_text", "empty", Apology}

\* C1 witness: the primary raised, the Ollama backup raised, Gemini answered
\* with a failure, and generate() still returned.
C1_Witness ==
    /\ Done
    /\ calls = <<"groq", "ollama", "gemini">>
    /\ Failing("groq") /\ Failing("ollama") /\ Failing("gemini")
    /\ result.response # "none"

\* C2 (as claimed): for an auto-routed request and distinct providers A, B:
\* if A was selected, is configured and fails, and B is configured and
\* succeeds, the result has fallback = true and provider = B.
C2_FallbackToAnyHealthy ==
    (Done /\ auto) =>
        \A A \in Providers, B \in Providers :
            ( /\ A # B
              /\ provider = A /\ A \in avail /\ Failing(A)
              /\ B \in avail /\ health[B] = "ok" )
            => (result.fallback /\ result.provider = B)

\* C3 (as claimed): when the primary, the Ollama backup and the Gemini last
\* resort all fail, the response is the apology string with error populated,
\* and raw provider error text is never the response.
C3_ApologyWhenAllFail ==
    Done =>
        /\ (\A p \in {provider, "ollama", "gemini"} : health[p] # "ok")
              => (result.response = Apology /\ result.error)
        /\ result.response # "error_text"

C5_LazyRollover ==
    q_op.name \in {"can_use", "record_usage"} => usage.month = now_month

\* The state part of C6: the used count is the count the ledger was loaded
\* with plus the record_usage calls made since, the last can_use answered
\* used < limit, and the last get_remaining answered max(0, limit - used).
C6_Counts ==
    /\ \A s \in Services : usage[s] = expected[s]
    /\ q_op.name = "can_use" =>
          (q_op.ret = 1 <=> usage[q_op.service] < MONTHLY_QUOTAS[q_op.service])
    /\ q_op.name = "get_remaining" =>
          q_op.ret = (IF MONTHLY_QUOTAS[q_op.service] - usage[q_op.service] > 0
                      THEN MONTHLY_QUOTAS[q_op.service] - usage[q_op.service]
                      ELSE 0)

\* The step part of C6: no operation of a running QuotaManager decreases a
\* used count, and an operation that changes the ledger raises exactly one
\* count, by exactly one.
C6_NeverDecreased ==
    instance' = instance =>
        /\ \A s \in Services : usage'[s] >= usage[s]
        /\ usage' # usage =>
              \E s \in Services : usage' = [usage EXCEPT ![s] = @ + 1]

\* C6: within a month, N record_usage calls on a fresh counter leave
\* used = N; can_use is true iff used < limit; get_remaining is
\* max(0, limit - used); and no operation decreases a used count.
C6_QuotaCounting == [](C6_Counts) /\ [][C6_NeverDecreased]_vars

\* C6 witness: a ledger created fresh at start-up, counted up to the Brave
\* limit by record_usage, where can_use("brave") has just answered false.
C6_Witness ==
    /\ instance = 0 /\ now_month = 0
    /\ usage.brave = BraveQuota /\ usage.tavily = 0
    /\ file.state = "ok" /\ file.data.brave = BraveQuota
    /\ q_op = [name |-> "can_use", service |-> "brave", ret |-> 0]

\* C9 (as claimed): whenever record_usage has returned, the stored ledger
\* equals the ledger in memory, whatever the file write did.
C9_DurableWrite ==
    q_op.name = "record_usage" =>
        /\ file.state = "ok"
        /\ \A s \in Services : file.data[s] = usage[s]

(***************************************************************************)
(* Claims about the search gateway (checked under SpecSearch)              *)
(***************************************************************************)

\* The quota service a tier's HTTP call is charged to.
QuotaOf(t) == IF t = "news" THEN "brave" ELSE t

Range(q) == {q[i] : i \in 1..Len(q)}

\* The HTTP calls to quota-tracked backends that request q has completed.
Attempts(q, s) ==
    Cardinality({i \in 1..Len(q.tiers) :
                    /\ q.tiers[i] \in {"brave", "tavily", "news"}
                    /\ QuotaOf(q.tiers[i]) = s
                    /\ ~(i = Len(q.tiers) /\ q.pc = q.tiers[i])})

\* C7 (as claimed): every completed attempt against Brave web search, Brave
\* news search or Tavily has charged that provider's quota exactly once,
\* whether it succeeded or failed.
C7_ChargedPerAttempt ==
    \A r \in Req : \A s \in DOMAIN MONTHLY_QUOTAS :
        req[r].charged[s] = Attempts(req[r], s)

\* C8 (as claimed): the used count has grown by exactly one per
\* record_usage call of the concurrent requests, in memory and, once every
\* request has returned, in the stored ledger.
C8_NoLostUpdate ==
    \A s \in Services :
        /\ usage[s] = expected[s]
        /\ (\A r \in Req : req[r].pc \in {"idle", "done"}) =>
              (file.state = "ok" /\ file.data[s] = expected[s])

\* The state part of C10, for every smart_search call: its tiers are a
\* subsequence of Brave, Tavily, knowledge fallback; Tavily was called only
\* after Brave gave nothing; the fallback only after both gave nothing; and
\* once Brave returned a result the call is over with Brave's results,
\* Tavily and the fallback neither invoked nor charged.
C10_Tiers ==
    \A r \in Req :
        LET q == req[r]
        IN  q.kind = "smart" =>
              /\ q.tiers \in {<<>>, <<"brave">>, <<"tavily">>, <<"groq">>,
                              <<"brave", "tavily">>, <<"brave", "groq">>,
                              <<"tavily", "groq">>, <<"brave", "tavily", "groq">>}
              /\ "tavily" \in Range(q.tiers) => q.n_brave = 0
              /\ "groq" \in Range(q.tiers) => (q.n_brave = 0 /\ q.n_tavily = 0)
              /\ q.n_brave > 0 =>
                    /\ q.tiers = <<"brave">>
                    /\ q.charged.tavily = 0 /\ q.charged.groq_fallback = 0
                    /\ q.pc = "done"
                    /\ q.response.source = "brave"
                    /\ q.response.count = q.n_brave

\* The step part of C10: a search tier is entered only with its key set and
\* its quota not spent; Tavily is entered without Brave only when Brave had
\* no key or no quota left; and a call that got a Brave result moves no
\* Tavily or fallback counter.
C10_Gated ==
    \A r \in Req :
        (req'[r].kind = "smart" /\ req'[r].tiers # req[r].tiers) =>
            LET t == req'[r].tiers[Len(req'[r].tiers)]
            IN  /\ t = "brave" => (brave_key /\ usage.brave < MONTHLY_QUOTAS.brave)
                /\ t = "tavily" =>
                      /\ tavily_key /\ usage.tavily < MONTHLY_QUOTAS.tavily
                      /\ "brave" \notin Range(req'[r].tiers) =>
                            (~brave_key \/ usage.brave >= MONTHLY_QUOTAS.brave)
                /\ t = "groq" =>
                      /\ "brave" \notin Range(req'[r].tiers) =>
                            (~brave_key \/ usage.brave >= MONTHLY_QUOTAS.brave)
                      /\ "tavily" \notin Range(req'[r].tiers) =>
                            (~tavily_key \/ usage.tavily >= MONTHLY_QUOTAS.tavily)

\* The other step part of C10: the step in which Brave returns a result
\* leaves the Tavily and fallback counters as they were.
C10_CountersKept ==
    \A r \in Req :
        (req[r].kind = "smart" /\ req[r].pc = "brave" /\ req'[r].n_brave > 0) =>
            (usage'.tavily = usage.tavily /\ usage'.groq_fallback = usage.groq_fallback)

\* C10: smart_search tries Brave, Tavily, knowledge fallback in that order,
\* each search tier behind its own quota check; Tavily only if Brave returned
\* nothing or could not be used; the fallback only if both yielded nothing;
\* and a single Brave result ends the call with the other counters untouched.
C10_TierOrder == [](C10_Tiers) /\ [][C10_Gated /\ C10_CountersKept]_vars

\* C10 witness: a smart_search call that is over, in which Brave returned
\* fewer results than requested while Tavily had a key and quota left.
C10_Witness ==
    \E r \in Req :
        /\ req[r].kind = "smart" /\ req[r].pc = "done"
        /\ req[r].n_brave = 1 /\ req[r].n_brave < Count
        /\ req[r].tiers = <<"brave">>
        /\ tavily_key /\ usage.tavily < MONTHLY_QUOTAS.tavily

\* C11 (as claimed): every response the knowledge fallback produced has
\* is_fallback = true, the knowledge-fallback source tag and exactly one
\* result, flagged as an AI result, whatever the language-model call did.
C11_FallbackShape ==
    \A r \in Req :
        (req[r].pc = "done" /\ "groq" \in Range(req[r].tiers)) =>
            /\ req[r].response.is_fallback = "true"
            /\ req[r].response.source = "groq_knowledge"
            /\ req[r].response.count = 1
            /\ req[r].response.results = 1
            /\ req[r].response.ai = 1

\* The state part of C12, for every search_news call: it invokes the Brave
\* news search at most once, then at most the knowledge fallback, never
\* Tavily; it charges nothing to Tavily; and when it is over without a
\* 200 answer from the news search, the knowledge fallback answered.
C12_NewsTiers ==
    \A r \in Req :
        req[r].kind = "news" =>
            /\ req[r].tiers \in {<<>>, <<"news">>, <<"groq">>, <<"news", "groq">>}
            /\ req[r].charged.tavily = 0
            /\ (req[r].pc = "done" /\ "news" \notin req[r].ok) =>
                  req[r].tiers[Len(req[r].tiers)] = "groq"
            /\ (req[r].pc = "done" /\ "news" \in req[r].ok) =>
                  (req[r].tiers = <<"news">> /\ req[r].response.source = "brave_news")

\* The step part of C12: a step of a search_news call leaves the Tavily
\* counter alone, and the call starts with the knowledge fallback exactly
\* when the Brave key is missing or the Brave quota is spent.
C12_NewsSteps ==
    \A r \in Req :
        (req'[r].kind = "news" /\ req'[r] # req[r]) =>
            /\ usage'.tavily = usage.tavily
            /\ req[r].pc = "idle" =>
                  req'[r].tiers =
                      (IF ~brave_key \/ usage.brave >= MONTHLY_QUOTAS.brave
                       THEN <<"groq">> ELSE <<"news">>)

\* C12: search_news uses the Brave news search; when that is unavailable
\* (no key, quota spent, non-200 status, timeout, exception) it goes straight
\* to the knowledge fallback, never invoking Tavily or moving its counter.
C12_NewsSkipsTavily == [](C12_NewsTiers) /\ [][C12_NewsSteps]_vars

\* C12 witness: a search_news call whose Brave news call failed and which
\* ended in the knowledge fallback although Tavily had a key and quota left.
C12_Witness ==
    \E r \in Req :
        /\ req[r].kind = "news" /\ req[r].pc = "done"
        /\ req[r].tiers = <<"news", "groq">>
        /\ tavily_key /\ usage.tavily < MONTHLY_QUOTAS.tavily

(***************************************************************************)
(* Claims about process_message                                            *)
(***************************************************************************)

StageOrder == <<"classify", "dispatch", "critic", "cross", "fact", "persist", "return">>

Rank(st) == CHOOSE i \in 1..Len(StageOrder) : StageOrder[i] = st

Ran(st) == \E i \in 1..Len(orch.stages) : orch.stages[i] = st

\* What the latest stage before the Cross-Verifier put out.
BeforeCross == IF Ran("critic") THEN orch.review.final_response ELSE orch.draft_response

\* What the latest stage before the Fact-Checker put out.
BeforeFact ==
    IF Ran("cross")
    THEN IF orch.cross_check.verified THEN orch.cross_in ELSE orch.cross_check.response
    ELSE BeforeCross

\* What the latest stage before the return put out.
BeforeReturn ==
    IF Ran("fact") /\ orch.verification_result.verified
    THEN orch.verification_result.verified_response
    ELSE BeforeFact

C13_Linear ==
    /\ \A i, j \in 1..Len(orch.stages) :
          i < j => Rank(orch.stages[i]) < Rank(orch.stages[j])
    /\ Ran("critic") => orch.critic_in = orch.draft_response
    /\ Ran("cross") => orch.cross_in = BeforeCross
    /\ Ran("fact") => orch.fact_in = BeforeFact
    /\ Ran("return") => orch.out.response = BeforeReturn /\ orch.saved = BeforeReturn

C13_NoReentry ==
    /\ Len(orch'.stages) >= Len(orch.stages)
    /\ SubSeq(orch'.stages, 1, Len(orch.stages)) = orch.stages

\* C13: in every run of process_message the stages entered are in the order
\* classify, dispatch, Critic, Cross-Verifier, Fact-Checker, persist, return,
\* each at most once and never left for an earlier one, and every
\* quality-gate stage that runs is given the output of the latest earlier
\* stage that ran, as is the return.
C13_LinearStages == [](C13_Linear) /\ [][C13_NoReentry]_vars

\* A run in which all stages ran and the Critic changed the draft.
C13_Witness ==
    /\ orch.stages = StageOrder
    /\ orch.review.final_response # orch.draft_response
    /\ orch.cross_check.verified

\* C14: a request whose intent is general or tool, whatever verify_facts is,
\* never has the Critic or the Fact-Checker invoked and is returned with
\* reviewed = true, verified = false and confidence = 0.
C14_LowRiskSkipsGates ==
    orch.intent \in {"general", "tool"} =>
        /\ ~Ran("critic") /\ ~Ran("fact")
        /\ Ran("return") =>
              /\ orch.out.reviewed
              /\ ~orch.out.verified
              /\ orch.out.confidence = 0

\* A tool request that the classifier routed, returned with fact checking asked for.
C14_Witness ==
    /\ Ran("return")
    /\ orch.intent = "tool"
    /\ orch.classified_by = "classifier"
    /\ orch.verify_facts
    /\ ~orch.tool_success

C15_Invoked ==
    /\ Ran("cross") => orch.intent \in {"wellness", "protection", "research"}
    /\ orch.pc \in {"fact", "persist"} \/ Ran("return") =>
          (orch.intent \in {"wellness", "protection", "research"} => Ran("cross"))

C15_Untouched ==
    orch.pc = "cross" /\ orch.intent \notin {"wellness", "protection", "research"} =>
        /\ orch'.final_response = orch.final_response
        /\ orch'.cross_check = orch.cross_check

\* C15: the Cross-Verifier is invoked for every request whose intent is
\* wellness, protection or research (research through force_agent included)
\* and for no other; for the others the final response passes its stage
\* unaltered.
C15_CrossVerifierScope == [](C15_Invoked) /\ [][C15_Untouched]_vars

\* A forced DeepResearchAgent run that the Cross-Verifier changed.
C15_Witness ==
    /\ Ran("return")
    /\ orch.force_agent = "DeepResearchAgent"
    /\ Ran("cross")
    /\ ~orch.cross_check.verified

\* The fast-path heuristics as the message meets them: a literal greeting,
\* an obvious tool request (bmi or calculate), an obvious search request (a
\* search keyword and no "you").
HeuristicMatched(m) == m.greeting \/ m.bmi_calc \/ (m.search_kw /\ ~m.you)

\* C16: when no agent is forced and the message is a greeting or matches the
\* tool or search keyword heuristic, intent and specialist are fixed without
\* a classifier call, and the classifier is called only when no heuristic
\* matched; a greeting is handled by GeneralAgent as general, without Critic
\* and Fact-Checker, reviewed = true and verified = false.
C16_FastPathSkipsClassifier ==
    orch.force_agent \notin Agents =>
        /\ HeuristicMatched(orch.msg) => orch.pc # "classify" /\ orch.classified_by # "classifier"
        /\ orch.classified_by = "classifier" => ~HeuristicMatched(orch.msg)
        /\ orch.msg.greeting /\ Ran("return") =>
              /\ orch.intent = "general" /\ orch.agent_name = "GeneralAgent"
              /\ ~Ran("critic") /\ ~Ran("fact")
              /\ orch.out.reviewed /\ ~orch.out.verified

\* C17: when the Cross-Verifier runs on a draft that provider A produced and
\* some provider other than A is configured, the verdict is generated by a
\* configured provider other than A.
C17_OpposingProvider ==
    /\ Ran("cross")
    /\ orch.draft_provider \in Providers
    /\ avail \ {orch.draft_provider} # {}
    => orch.cross_check.by \in avail \ {orch.draft_provider}

StartsWithSafe(t) == upper(Prefix(t, 4)) = <<"S", "A", "F", "E">>

\* C18: after the Cross-Verifier, the response is the text it was given when
\* the verdict starts with "SAFE" in any case, and the verdict itself when
\* it does not; in the second case the orchestrator delivers the verdict.
C18_SafeOrReplace ==
    Ran("cross") /\ ~orch.cross_check.raised =>
        /\ orch.pc = "fact" =>
              orch.final_response =
                  IF StartsWithSafe(orch.cross_check.text) THEN orch.cross_in
                  ELSE orch.cross_check.text
        /\ Ran("return") /\ ~StartsWithSafe(orch.cross_check.text) =>
              orch.out.response = orch.cross_check.text

\* The verification call got no completion from any provider it tried.
VerifierFailed ==
    Ran("cross") /\ (orch.cross_check.raised \/ orch.cross_check.text \notin VerifierBodies)

\* C19: when the verification call fails, the Cross-Verifier returns the text
\* it was given and the orchestrator's final response is that text, never an
\* error or apology text.
C19_FailOpen ==
    VerifierFailed =>
        /\ orch.cross_check.verified /\ orch.cross_check.response = orch.cross_in
        /\ orch.pc = "fact" => orch.final_response = orch.cross_in
        /\ Ran("return") => orch.out.response = orch.cross_in

\* C20: when the Fact-Checker ran and its confidence is below 0.6, what is
\* returned and saved to the history is the rewrite of its input or, when
\* the rewrite failed, its input with the note appended.
C20_LowConfidenceRewritten ==
    Ran("return") /\ Ran("fact") /\ orch.verification_result.confidence < 600 =>
        /\ orch.out.response \in {RevisedText, orch.fact_in \o Note}
        /\ orch.saved = orch.out.response

(***************************************************************************)
(* Claims about the Fact-Checker (checked under SpecFactCheck)             *)
(***************************************************************************)

StartsWith(t, word) == Prefix(t, Len(word)) = word

\* The score the label of a model answer stands for, in tenths.
LabelScore(answer) ==
    IF StartsWith(upper(answer), <<"S", "U", "P", "P", "O", "R", "T", "E", "D">>) THEN 9
    ELSE IF StartsWith(upper(answer), <<"C", "O", "N", "T", "R", "A", "D", "I", "C", "T", "E", "D">>) THEN 1
    ELSE 5

RECURSIVE SeqSum(_)
SeqSum(q) == IF q = <<>> THEN 0 ELSE q[1] + SeqSum(Tail(q))

\* C21: the Fact-Checker keeps at most five claims and checks at most the
\* first three; a claim the model classified scores 0.9, 0.1 or 0.5 by the
\* label SUPPORTED, CONTRADICTED or UNCLEAR of the answer; the confidence is
\* the mean of the scores of the claims checked; verified iff confidence >=
\* 0.6, a rewrite iff confidence < 0.6; with no claim extracted nothing is
\* searched and the message comes back unchanged, verified, confidence high.
C21_FactCheckNumbers ==
    fc.pc = "done" =>
        /\ fc.result.claims_checked <= 5
        /\ fc.searches <= 3
        /\ fc.searches = Min(fc.result.claims_checked, 3)
        /\ \A i \in 1..Len(fc.events) :
              fc.events[i].search = "found" /\ ~fc.events[i].llm_raises =>
                  fc.scores[i] = LabelScore(fc.events[i].answer)
        /\ fc.result.claims_checked > 0 =>
              /\ fc.result.confidence = (SeqSum(fc.scores) * 100) \div Len(fc.scores)
              /\ fc.result.verified <=> fc.result.confidence >= 600
              /\ fc.rewrites = 1 <=> fc.result.confidence < 600
        /\ fc.result.claims_checked = 0 =>
              /\ fc.searches = 0 /\ fc.rewrites = 0
              /\ fc.result.verified_response = fc.message
              /\ fc.result.verified
              /\ fc.result.confidence >= 600

(***************************************************************************)
(* Claims about the Critic (checked under SpecCritic)                      *)
(***************************************************************************)

\* The body after the last "IMPROVED:" of a reviewer text, stripped.
ImprovedBody(t) == strip(AfterLast(t, <<"I", "M", "P", "R", "O", "V", "E", "D", ":">>))

\* What the Critic may deliver for a draft and a reviewer text.
Delivered(draft, review_result) ==
    {draft, draft \o Disclaimer}
    \cup (IF Contains(review_result, <<"I", "M", "P", "R", "O", "V", "E", "D", ":">>)
          THEN {ImprovedBody(review_result)} ELSE {})

\* C22: for every intent, draft and reviewer output the Critic's outcome has
\* approved = true and a final_response that is the draft, the reviewer's
\* IMPROVED body or the draft with the disclaimer appended, and the
\* orchestrator reports reviewed = true for it.
C22_CriticNeverBlocks ==
    /\ crit.pc \in {"once", "twice"} =>
          /\ crit.first.approved
          /\ crit.first.final_response \in Delivered(crit.draft, crit.review_result)
          /\ crit.reviewed
    /\ crit.pc = "twice" =>
          /\ crit.second.approved
          /\ \E r \in Completions(avail, FALSE, CriticBodies) :
                crit.second.final_response \in Delivered(crit.first.final_response, r.text)

\* A reviewer text with neither an approval nor an IMPROVED body, for a
\* wellness draft: the draft goes out with the disclaimer.
C22_Witness ==
    /\ crit.pc = "once"
    /\ crit.intent = "wellness"
    /\ crit.first.reviewer
    /\ ~Contains(crit.review_result, <<"I", "M", "P", "R", "O", "V", "E", "D", ":">>)
    /\ ~Contains(lower(crit.review_result), <<"a", "p", "p", "r", "o", "v", "e", "d", ":", " ", "y", "e", "s">>)
    /\ crit.first.final_response = crit.draft \o Disclaimer

\* C23: for intent general, or tool with tool_success, the Critic returns
\* the draft unchanged without calling the reviewer model, and applied to
\* its own output it returns the same text again.
C23_LowRiskIdempotent ==
    crit.pc \in {"once", "twice"}
    /\ (crit.intent = "general" \/ (crit.intent = "tool" /\ crit.tool_success)) =>
        /\ crit.first.final_response = crit.draft
        /\ ~crit.first.reviewer
        /\ crit.pc = "twice" =>
              /\ crit.second.final_response = crit.first.final_response
              /\ crit.reviewer_calls = 0

\* The Critic applied twice to a successful tool result.
C23_Witness ==
    /\ crit.pc = "twice"
    /\ crit.intent = "tool" /\ crit.tool_success
    /\ crit.second.final_response = crit.draft
    /\ crit.draft = ToolText

(***************************************************************************)
(* Claims about background persistence (checked under SpecPersist)         *)
(***************************************************************************)

C24_AfterFinal ==
    /\ orch.scheduled =>
          /\ orch.pc = "done" /\ ~orch.raised
          /\ orch.final_response = orch.out.response
    /\ bg.pc # "none" => orch.scheduled /\ bg.arg = orch.out.response
    /\ bg.pc # "raised"

C24_ResultKept == bg' # bg => orch' = orch

\* C24: the persistence task is created only once the final response is
\* fixed and is given that response; a failure at its first write, at the
\* embedding or at its second write ends it in its handler, never as an
\* exception; no step of the task changes what process_message returned.
C24_PersistenceContained == [](C24_AfterFinal) /\ [][C24_ResultKept]_vars

\* The second write failed after the first succeeded; the result stands.
C24_Witness ==
    /\ bg.pc = "logged"
    /\ bg.failed_at = "store_assistant"
    /\ bg.stored = <<"user">>
    /\ orch.out.response # <<>>
    /\ orch.out.reviewed

(***************************************************************************)
(* Claims about provider failures in the pipeline (SpecPipeline)           *)
(***************************************************************************)

\* C25: for every intent, when process_message is called as process_query
\* calls it (no forced agent), it completes with a response text and the
\* endpoint answers 200; no provider failure leaves it as an exception or
\* becomes a 5xx status.
C25_FailuresRecovered ==
    orch.force_agent = "None" /\ orch.pc = "done" =>
        /\ ~orch.raised
        /\ orch.status = 200
        /\ Ran("return")

(***************************************************************************)
(* Further claims about the model router (SpecRouter), the search gateway  *)
(* (SpecSearch) and the rate limiter (SpecLimiter)                         *)
(***************************************************************************)

\* C26: in auto mode, whenever at least one provider is configured, the
\* provider selected as primary is a configured one, for every request
\* category.
C26_SelectsConfigured ==
    (auto /\ pc # "idle" /\ avail # {}) => provider \in avail

\* C28: the used count of brave and of tavily never exceeds its monthly
\* limit, for any interleaving of concurrent search requests.
C28_WithinQuota ==
    /\ usage.brave <= MONTHLY_QUOTAS.brave
    /\ usage.tavily <= MONTHLY_QUOTAS.tavily

\* C29: when generate() is called with a forced provider P among groq,
\* openrouter, xai, ollama and gemini that is configured and answers, P is
\* the provider invoked and the result has provider = P and fallback = false.
C29_ForcedProviderUsed ==
    ( /\ Done /\ ~auto
      /\ provider \in {"groq", "openrouter", "xai", "ollama", "gemini"}
      /\ provider \in avail /\ health[provider] = "ok" )
    => /\ calls = <<provider>>
       /\ result.provider = provider
       /\ ~result.fallback

\* How many calls for key k that returned True carry a timestamp in (lo, hi].
RECURSIVE GrantedIn(_, _, _)
GrantedIn(k, lo, hi) ==
    IF hi <= lo THEN 0
    ELSE (IF hi \in 0..MaxClock THEN rl.granted[k][hi] ELSE 0) + GrantedIn(k, lo, hi - 1)

C27_AtMostLimit ==
    \A k \in Keys : \A lo \in (0 - WindowSeconds)..MaxClock :
        GrantedIn(k, lo, lo + WindowSeconds) <= RateLimit

C27_RefusalRecordsNothing ==
    ( /\ rl'.op = "allow" /\ rl'.ret = "false"
      /\ clock' = clock
      /\ (rl' # rl \/ requests' # requests) )
    => /\ requests'[rl'.key] = Prune(requests[rl'.key], clock - WindowSeconds)
       /\ \A k \in Keys : k # rl'.key => requests'[k] = requests[k]
       /\ rl'.granted = rl.granted

C30_RemainingMatchesWindow ==
    \A k \in Keys :
        /\ limiter_get_remaining(requests[k], RateLimit) =
               Max(0, RateLimit - GrantedIn(k, clock - WindowSeconds, clock))
        /\ allow(requests[k], clock, RateLimit, WindowSeconds).ret
               <=> limiter_get_remaining(requests[k], RateLimit) > 0

====
